---- MODULE Spec2Model ----
(***************************************************************************)
(* Model of the endpoint agent: the live screen-streaming session          *)
(* (src/src/ws_stream.rs), the violation detector (src/src/monitor.rs),    *)
(* the mutex main keeps it in, screen capture (src/src/screenshot.rs), the *)
(* key-value store (src/src/store.rs) and the control endpoints            *)
(* (src/src/api.rs).                                                       *)
(*                                                                         *)
(* Each component has its own specification over the shared variables:     *)
(*   StreamSpec / StreamFairSpec  run_streaming_loop + connect_and_stream  *)
(*   ScanSpec                     Monitor::full_scan and update_bans       *)
(*   LockSpec                     full_scan probe by probe beside a reload *)
(*   CaptureSpec                  capture_screenshot's retry loop          *)
(*   AgentSpec                    the streaming task beside the scan loop  *)
(*   CodecSpec                    the resize step of both encoders         *)
(*   PanicSpec                    the scan loop with a panicking worker    *)
(*   RecordSpec                   the scan loop handing violations on      *)
(*   StoreSpec                    the violation list and counter growing   *)
(*   ReadSpec                     the violation list written and read back *)
(*   SnapshotSpec                 push_screenshot and the screenshot keys  *)
(*   ApiSpec                      the open-URL endpoint                    *)
(***************************************************************************)
EXTENDS Naturals, Integers, Sequences, FiniteSets, TLC

VARIABLES
    \* ---- streaming session (ws_stream.rs) ----
    cfg,            \* StreamingConfig fields the loop reads
    pc,             \* await point the streaming task is parked at
    link,           \* transport: "none" | "up" | "broken"
    last_hash,      \* connect_and_stream's local `last_hash`
    jpeg_bytes,     \* frame handed to write.send (Some(bytes)) or None
    result,         \* what the last connect_and_stream returned
    \* ---- observation (history) of the streaming session ----
    wire,           \* messages written on the current connection, in order
    prev_last,      \* last message of the connection before this one (Some/None)
    iter,           \* the last loop iteration: branch taken and bytes encoded
    naps,           \* frame-interval sleeps since the last capture
    waits,          \* reconnect sleeps since the last session ended
    attempts,       \* connect attempts so far (saturating)
    fails,          \* consecutive failed sessions (saturating)
    replied,        \* the remote wrote something on this connection
    \* ---- violation detector (monitor.rs) ----
    platform,       \* target_os the agent was built for
    monitor,        \* struct Monitor: ban lists, hostname, username
    main_pc,        \* main's scan loop: "scan" | "record"
    cycle,          \* the last full_scan: what it observed, did and returned
    \* ---- Arc<Mutex<Monitor>> (main.rs) ----
    guard,          \* who holds the mutex, where its users stand, what the
                    \* probes of the running full_scan read
    \* ---- screen capture (screenshot.rs) ----
    shot,           \* capture_screenshot's retry loop: locals and history
    \* ---- the scan worker's panics (main.rs) ----
    poisoned,       \* the Monitor mutex was held by a thread that panicked
    panics,         \* scan cycles whose worker panicked (saturating)
    \* ---- key-value store (store.rs) ----
    redis,          \* reachability of the server, and this host's keys
    handed,         \* violations of this cycle passed to record_violation
    \* ---- frame codec, resize step (screenshot.rs, ws_stream.rs) ----
    codec,          \* one encoder call: path, source size, limit, result
    \* ---- control endpoints (api.rs) ----
    api,            \* the last requests, their responses, commands run
    \* ---- periodic snapshots on their way to the store (main.rs, store.rs) ----
    snap            \* Utc::now() in ticks; did the last push's commands all succeed

stream_vars == <<cfg, pc, link, last_hash, jpeg_bytes, result,
                 wire, prev_last, iter, naps, waits, attempts, fails, replied>>

scan_vars == <<platform, monitor, main_pc, cycle>>

\* What the streaming task's steps leave alone, and the scan task's.
service_vars == <<poisoned, panics, redis, handed, codec, api, snap>>

beyond_stream == <<scan_vars, guard, shot, service_vars>>
beyond_scan == <<stream_vars, shot, service_vars>>
beyond_capture == <<stream_vars, scan_vars, guard, service_vars>>

vars == <<stream_vars, scan_vars, guard, shot, service_vars>>

----------------------------------------------------------------------------
(* Bounds of the model *)

MaxImage == 4       \* screens are images 0..MaxImage
MaxWire == 4        \* the remote drops a connection by its MaxWire-th message
MaxAttempts == 3    \* `attempts` saturates here
MaxFails == 3       \* `fails` saturates here
AgentMaxAttempts == 1   \* connections followed when both loops run
AgentMaxWire == 2       \* messages per connection followed when both loops run
AgentMaxProcs == 1      \* processes per cycle followed when both loops run
AgentMaxBans == 1       \* ban entries kept when both loops run

(* Program constants *)

streaming_default_interval_ms == 700
streaming_default_reconnect_secs == 4
capture_attempts == 3           \* `for attempt in 0..3`
capture_retry_delay_ms == 500   \* Duration::from_millis(500)

----------------------------------------------------------------------------
(* Values *)

None == <<>>
Some(x) == <<x>>

Last(s) == s[Len(s)]

Min(a, b) == IF a < b THEN a ELSE b

Images == 0..MaxImage

\* String::new()
EmptyString == <<>>

\* Arc::new(Mutex::new(monitor)): unlocked, nobody waiting for it.
FreeGuard ==
    [lock |-> "free", scan_at |-> "idle", reload_at |-> "idle",
     pending |-> None, reads |-> <<>>]

\* capture_screenshot on entry: `last_err` and `screen_capture` as declared,
\* no attempt made yet.
NoShot ==
    [at |-> "loop", attempt |-> 0, last_err |-> "No screens found",
     screen_capture |-> None, sleeps |-> <<>>, tried |-> <<>>,
     returned |-> None]

\* A reachable store that nothing was written to: the violation list and
\* counter of this host, its latest screenshot and its screenshot history.
EmptyStore ==
    [up |-> TRUE, violations |-> <<>>, violation_count |-> 0,
     screenshot |-> None, screenshot_history |-> <<>>]

\* No encoder call made yet.
NoCodec ==
    [path |-> "none", width |-> 1, height |-> 1, max_dimension |-> 1,
     encoded |-> None]

\* No request handled yet, no platform command run.
NoApi ==
    [url |-> None, response |-> None, commands |-> <<>>,
     count |-> 0, read |-> FALSE, raw |-> 0, violations |-> None]

\* The parts of the agent a specification does not exercise stay as main
\* leaves them at startup.
\* No push_screenshot call made yet.
NoSnap == [now |-> 0, all_ok |-> FALSE]

ServicesIdle ==
    /\ poisoned = FALSE
    /\ panics = 0
    /\ redis = EmptyStore
    /\ handed = <<>>
    /\ codec = NoCodec
    /\ api = NoApi
    /\ snap = NoSnap

\* The hostname resolved once at startup and passed to run_streaming_loop.
hostname == "pc-01"

\* capture_screen run through spawn_blocking: the worker may panic (JoinError),
\* capture may fail (no monitor, capture_image error), or an image comes back.
CaptureOutcomes == {<<"panic">>, <<"err">>} \cup {<<"ok", img>> : img \in Images}

\* What the screen answers to successive acquisitions half a second apart,
\* counted from the start of one loop iteration: a single answer, or one or
\* two transient failures followed by an image.
Displays ==
    {<<o>> : o \in CaptureOutcomes}
        \cup {<<<<"err">>, <<"ok", MaxImage>>>>,
              <<<<"err">>, <<"err">>, <<"ok", MaxImage>>>>}

\* capture_screen: the monitors are enumerated once and capture_image is
\* called once; what that one acquisition gives is what is returned.
capture_screen(display) == display[1]

\* compress_to_jpeg: a lossy, deterministic encoding.  Image 0 stands for an
\* image the encoder rejects (write_with_encoder fails); neighbouring images
\* 2k, 2k+1 compress to the same bytes.
compress_to_jpeg(img) ==
    IF img = 0 THEN None ELSE Some([jpeg |-> img \div 2])

\* sha256_hash: lowercase hex digest of the bytes; never the empty string,
\* and (collision resistance) distinct for distinct inputs.
sha256_hash(data) == <<"sha256", data>>

\* serde_json::json!({"role": "student", "hostname": hostname})
handshake == [role |-> "student", hostname |-> hostname]

Text(body, ok) == [kind |-> "text", body |-> body, ok |-> ok]
Binary(body, ok) == [kind |-> "binary", body |-> body, ok |-> ok]

----------------------------------------------------------------------------
(* Streaming session *)

StreamInit ==
    /\ cfg \in [interval_ms : {0, streaming_default_interval_ms},
                reconnect_secs : {0, streaming_default_reconnect_secs}]
    /\ pc = "connect"
    /\ link = "none"
    /\ last_hash = EmptyString
    /\ jpeg_bytes = None
    /\ result = "running"
    /\ wire = <<>>
    /\ prev_last = None
    /\ iter = [path |-> "none", enc |-> None, screen |-> <<>>]
    /\ naps = <<>>
    /\ waits = <<>>
    /\ attempts = 0
    /\ fails = 0
    /\ replied = FALSE
    /\ platform = "linux"
    /\ main_pc = "scan"
    /\ monitor = [banned_procs |-> {}, banned_domains |-> {},
                  hostname |-> hostname, username |-> "student1"]
    /\ cycle = [procs |-> <<>>, dns |-> None, titles |-> None,
                kills |-> <<>>, flushes |-> <<>>, violations |-> <<>>,
                by_procs |-> 0, by_dns |-> 0]
    /\ guard = FreeGuard
    /\ shot = NoShot
    /\ ServicesIdle

\* `if hash == last_hash { continue; }`
AlwaysChanged(hash, stored) == FALSE

frame_unchanged(hash, stored) == hash = stored

\* `let mut last_hash = String::new();` on entering the frame loop
StaleHash == last_hash

fresh_last_hash == EmptyString

\* Duration::from_secs(cfg.reconnect_secs)
BackoffDelay == cfg.reconnect_secs * (fails + 1)

reconnect_delay == cfg.reconnect_secs

\* A write succeeds while the transport is up.  The remote is modelled as
\* dropping every connection no later than its MaxWire-th message, which
\* keeps the per-connection log finite.
SendOk == link = "up" /\ Len(wire) + 1 < MaxWire

\* A session that ends the task instead of returning to the caller's loop.
ClosedForGood(why) ==
    /\ pc' = "stopped"
    /\ result' = why
    /\ link' = "none"
    /\ waits' = <<>>
    /\ fails' = Min(fails + 1, MaxFails)

\* connect_and_stream returns Err(..): run_streaming_loop logs and goes to
\* its reconnect sleep.
Closed(why) ==
    /\ pc' = "closed"
    /\ result' = why
    /\ link' = "none"
    /\ waits' = <<>>
    /\ fails' = Min(fails + 1, MaxFails)

\* A `continue` that re-enters the loop body past the sleep.
NextIterationNoSleep ==
    /\ pc' = "capture"
    /\ UNCHANGED <<link, result, waits, fails>>

\* `continue` / end of the loop body: back to the sleep at the loop head.
NextIteration ==
    /\ pc' = "sleep"
    /\ UNCHANGED <<link, result, waits, fails>>

\* A failed capture or encoding that ends the session.
SkipFrameCloses == Closed("capture_error")

\* `warn!(..); continue;` after a failed capture or a failed encoding
SkipFrame == NextIteration

\* `if let Err(e) = write.send(..).await { return Err(e.into()); }`
SendErrorIgnored == NextIteration

\* A failed write after which connect_and_stream returns Ok(()).
SendFailedReturnsOk == Closed("ok")

SendFailed == Closed("send_error")

\* `write.send(Message::Text(..)).await?` lets the function go on iff the
\* write succeeded; the `_read` half is not consulted.
HandshakeAcked == SendOk /\ replied

HandshakeDone == SendOk

\* connect_async(&cfg.server_url).await?
Connect ==
    /\ pc = "connect"
    /\ attempts' = Min(attempts + 1, MaxAttempts)
    /\ \E ok \in BOOLEAN :
         IF ok
         THEN /\ pc' = "handshake"
              /\ link' = "up"
              /\ result' = "running"
              /\ prev_last' = IF wire = <<>> THEN None ELSE Some(Last(wire))
              /\ wire' = <<>>
              /\ replied' = FALSE
              /\ UNCHANGED <<waits, fails>>
         ELSE /\ Closed("connect_error")
              /\ UNCHANGED <<wire, prev_last, replied>>
    /\ UNCHANGED <<cfg, last_hash, jpeg_bytes, iter, naps>>
    /\ UNCHANGED beyond_stream

\* write.send(Message::Text(handshake)).await?  then `last_hash = String::new()`
Handshake ==
    /\ pc = "handshake"
    /\ wire' = Append(wire, Text(handshake, SendOk))
    /\ IF HandshakeDone
       THEN /\ last_hash' = fresh_last_hash
            /\ pc' = "sleep"
            /\ fails' = 0
            /\ UNCHANGED <<link, result, waits>>
       ELSE /\ Closed("handshake_error")
            /\ UNCHANGED last_hash
    /\ UNCHANGED <<cfg, jpeg_bytes, prev_last, iter, naps, attempts, replied>>
    /\ UNCHANGED beyond_stream

\* sleep(frame_interval).await at the head of the frame loop
FrameSleep ==
    /\ pc = "sleep"
    /\ pc' = "capture"
    /\ naps' = Append(naps, cfg.interval_ms)
    /\ UNCHANGED <<cfg, link, last_hash, jpeg_bytes, result, wire, prev_last,
                   iter, waits, attempts, fails, replied>>
    /\ UNCHANGED beyond_stream

\* spawn_blocking(capture_screen).await? ; compress ; hash ; compare ;
\* `last_hash = hash` ; up to the call of write.send
CaptureFrame ==
    /\ pc = "capture"
    /\ naps' = <<>>
    /\ \E display \in Displays :
         LET outcome == capture_screen(display)
             bytes == IF outcome[1] = "ok" THEN compress_to_jpeg(outcome[2]) ELSE None
             hash == sha256_hash(bytes[1])
         IN  IF outcome[1] = "panic"
             THEN /\ iter' = [path |-> "join_error", enc |-> None,
                              screen |-> display]
                  /\ Closed("join_error")
                  /\ UNCHANGED <<last_hash, jpeg_bytes>>
             ELSE IF outcome[1] = "err"
             THEN /\ iter' = [path |-> "capture_failed", enc |-> None,
                              screen |-> display]
                  /\ SkipFrame
                  /\ UNCHANGED <<last_hash, jpeg_bytes>>
             ELSE IF bytes = None
             THEN /\ iter' = [path |-> "jpeg_failed", enc |-> None,
                              screen |-> display]
                  /\ SkipFrame
                  /\ UNCHANGED <<last_hash, jpeg_bytes>>
             ELSE IF frame_unchanged(hash, last_hash)
             THEN /\ iter' = [path |-> "unchanged", enc |-> bytes,
                              screen |-> display]
                  /\ NextIteration
                  /\ UNCHANGED <<last_hash, jpeg_bytes>>
             ELSE /\ iter' = [path |-> "changed", enc |-> bytes,
                              screen |-> display]
                  /\ last_hash' = hash
                  /\ jpeg_bytes' = bytes
                  /\ pc' = "send"
                  /\ UNCHANGED <<link, result, waits, fails>>
    /\ UNCHANGED <<cfg, wire, prev_last, attempts, replied>>
    /\ UNCHANGED beyond_stream

\* write.send(Message::Binary(jpeg_bytes)).await
SendFrame ==
    /\ pc = "send"
    /\ wire' = Append(wire, Binary(jpeg_bytes[1], SendOk))
    /\ jpeg_bytes' = None
    /\ IF SendOk
       THEN NextIteration
       ELSE SendFailed
    /\ UNCHANGED <<cfg, last_hash, prev_last, iter, naps, attempts, replied>>
    /\ UNCHANGED beyond_stream

\* run_streaming_loop: sleep(Duration::from_secs(cfg.reconnect_secs)).await,
\* then the next turn of its loop
ReconnectSleep ==
    /\ pc = "closed"
    /\ pc' = "connect"
    /\ waits' = Append(waits, reconnect_delay)
    /\ UNCHANGED <<cfg, link, last_hash, jpeg_bytes, result, wire, prev_last,
                   iter, naps, attempts, fails, replied>>
    /\ UNCHANGED beyond_stream

\* Environment: the network breaks or the remote closes the connection.
LinkBreak ==
    /\ link = "up"
    /\ link' = "broken"
    /\ UNCHANGED <<cfg, pc, last_hash, jpeg_bytes, result, wire, prev_last,
                   iter, naps, waits, attempts, fails, replied>>
    /\ UNCHANGED beyond_stream

\* Environment: the remote writes to the connection (the `_read` half, which
\* connect_and_stream never polls).
RemoteReply ==
    /\ link = "up"
    /\ ~replied
    /\ replied' = TRUE
    /\ UNCHANGED <<cfg, pc, link, last_hash, jpeg_bytes, result, wire,
                   prev_last, iter, naps, waits, attempts, fails>>
    /\ UNCHANGED beyond_stream

StreamAgent ==
    \/ Connect
    \/ Handshake
    \/ FrameSleep
    \/ CaptureFrame
    \/ SendFrame
    \/ ReconnectSleep

StreamNext ==
    \/ StreamAgent
    \/ LinkBreak
    \/ RemoteReply

StreamSpec == StreamInit /\ [][StreamNext]_vars

\* The runtime keeps polling the task: timers fire and every await of the
\* agent completes (with success or an error).  Nothing is assumed of the
\* environment.
StreamFairSpec == StreamSpec /\ WF_vars(StreamAgent)

----------------------------------------------------------------------------
(* Strings.  A string is a sequence of characters; the alphabet holds cased  *)
(* letters, the Greek sigma in its three forms, '.', and a blank.            *)

UpperLetters == {"A", "B", "E", "X"}
LowerLetters == {"a", "b", "e", "x"}
Sigmas == {"SIGMA", "sigma", "fsigma"}  \* U+03A3, U+03C3, U+03C2

\* core::unicode::Cased
Cased(c) == c \in UpperLetters \cup LowerLetters \cup Sigmas

\* core::unicode::Case_Ignorable (U+002E FULL STOP is case-ignorable)
Case_Ignorable(c) == c = "."

\* core::unicode::conversions::to_lower
to_lower(c) ==
    CASE c = "A" -> "a"
      [] c = "B" -> "b"
      [] c = "E" -> "e"
      [] c = "X" -> "x"
      [] c = "SIGMA" -> "sigma"
      [] OTHER -> c

Reverse(s) == [i \in 1..Len(s) |-> s[Len(s) + 1 - i]]

RECURSIVE skip_while_ignorable(_)
skip_while_ignorable(s) ==
    IF s # <<>> /\ Case_Ignorable(s[1])
    THEN skip_while_ignorable(Tail(s))
    ELSE s

\* alloc::str: case_ignorable_then_cased
case_ignorable_then_cased(s) ==
    LET rest == skip_while_ignorable(s)
    IN  rest # <<>> /\ Cased(rest[1])

\* alloc::str: map_uppercase_sigma (Final_Sigma of SpecialCasing.txt)
map_uppercase_sigma(from, i) ==
    LET is_word_final ==
            /\ case_ignorable_then_cased(Reverse(SubSeq(from, 1, i - 1)))
            /\ ~case_ignorable_then_cased(SubSeq(from, i + 1, Len(from)))
    IN  IF is_word_final THEN "fsigma" ELSE "sigma"

\* str::to_lowercase
to_lowercase(s) ==
    [i \in 1..Len(s) |->
        IF s[i] = "SIGMA" THEN map_uppercase_sigma(s, i) ELSE to_lower(s[i])]

\* str::strip_suffix
strip_suffix(s, suffix) ==
    IF Len(s) >= Len(suffix)
       /\ SubSeq(s, Len(s) - Len(suffix) + 1, Len(s)) = suffix
    THEN Some(SubSeq(s, 1, Len(s) - Len(suffix)))
    ELSE None

\* Option::unwrap_or
unwrap_or(opt, default) == IF opt = None THEN default ELSE opt[1]

\* str::contains
contains(text, pat) ==
    \E i \in 0..(Len(text) - Len(pat)) : SubSeq(text, i + 1, i + Len(pat)) = pat

\* domain.split('.').next().unwrap_or(domain)
RECURSIVE first_label(_)
first_label(domain) ==
    IF domain = <<>> \/ domain[1] = "."
    THEN <<>>
    ELSE <<domain[1]>> \o first_label(Tail(domain))

ExeSuffix == <<".", "e", "x", "e">>

\* Every order in which a hash set or hash map can be iterated.
Orders(S) ==
    {f \in [1..Cardinality(S) -> S] : \A i, j \in DOMAIN f : i # j => f[i] # f[j]}

----------------------------------------------------------------------------
(* Bounds and inputs of the detector *)

MaxProcs == 2       \* process ids 1..MaxProcs

Pids == 1..MaxProcs

\* Lists a configuration may give as banned processes.
BanProcLists ==
    { {},
      {<<"A">>},
      {<<"a", ".", "e", "x", "e">>},
      {<<"A", "SIGMA">>},
      {<<"A">>, <<"b">>} }

\* Names running processes may have.
ProcNames ==
    { <<"a">>,
      <<"A", ".", "E", "X", "E">>,
      <<"A", "SIGMA", ".", "E", "X", "E">>,
      <<"e">> }

\* Lists a configuration may give as banned domains.
BanDomainLists ==
    { {},
      {<<"a", ".", "b">>},
      {<<"a", ".", "b">>, <<"B", ".", "e">>},
      {<<"A", "SIGMA">>} }

\* Resolver-cache dumps (stdout of the platform command).
DnsTexts ==
    { <<"x", " ", "b", ".", "e", " ", "x">>,
      <<"A", ".", "B", " ", "a", ".", "b", " ", "B", ".", "E">>,
      <<"A", "SIGMA", ".", "B">> }

\* Window titles, one after the other (stdout of the platform command).
TitleTexts ==
    { <<"x", ".", "a", ".", "b", "x", " ", "A", ".", "b">>,
      <<"e", "x", " ", "b">> }

ProcTables == UNION {[D -> ProcNames] : D \in SUBSET Pids}

\* std::process::Command::output(): Err (None) or the command's stdout.
CommandOutputs(texts) == {None} \cup {Some(t) : t \in texts}

username == "student1"

----------------------------------------------------------------------------
(* Violation detector *)

\* models::Violation; `timestamp` (Utc::now()) is not represented.
Violation(target, kind, action_taken) ==
    [hostname |-> monitor.hostname,
     target |-> target,
     kind |-> kind,
     action_taken |-> action_taken,
     username |-> monitor.username]

\* The names collected as the configuration spells them.
collected_as_given(names) == names

\* `names.iter().map(|n| n.to_lowercase()).collect()` into a HashSet.
lowercased(names) == {to_lowercase(n) : n \in names}

\* Monitor::new
Monitor_new(banned_processes, banned_domains, host, user) ==
    [banned_procs |-> lowercased(banned_processes),
     banned_domains |-> lowercased(banned_domains),
     hostname |-> host,
     username |-> user]

NoCycle ==
    [procs |-> <<>>, dns |-> None, titles |-> None,
     kills |-> <<>>, flushes |-> <<>>, violations |-> <<>>,
     by_procs |-> 0, by_dns |-> 0]

\* scan_processes without its `|| self.banned_procs.contains(&name)`.
is_banned_clean_only(raw) ==
    LET name == to_lowercase(raw)
        name_clean == unwrap_or(strip_suffix(name, ExeSuffix), name)
    IN  name_clean \in monitor.banned_procs

\* The `if` of scan_processes: the lowercased name, with or without its
\* ".exe", is in the ban list.
is_banned_proc(raw) ==
    LET name == to_lowercase(raw)
        name_clean == unwrap_or(strip_suffix(name, ExeSuffix), name)
    IN  name_clean \in monitor.banned_procs \/ name \in monitor.banned_procs

\* scan_processes giving up at the first proc.kill() that fails.
RECURSIVE scan_processes_until_failure(_, _, _)
scan_processes_until_failure(procs, order, killable) ==
    IF order = <<>>
    THEN [kills |-> <<>>, violations |-> <<>>]
    ELSE LET pid == order[1]
             rest == scan_processes_until_failure(procs, Tail(order), killable)
             name == to_lowercase(procs[pid])
             killed == pid \in killable
         IN  IF is_banned_proc(procs[pid])
             THEN [kills |-> <<[pid |-> pid, ok |-> killed]>>
                             \o (IF killed THEN rest.kills ELSE <<>>),
                   violations |->
                       <<Violation(name, "process", killed)>>
                       \o (IF killed THEN rest.violations ELSE <<>>)]
             ELSE rest

\* Monitor::scan_processes over the process table `procs`, iterated in
\* `order`; proc.kill() succeeds for the pids in `killable`.
\* Returns the kill attempts and the violations, both in iteration order.
RECURSIVE scan_processes(_, _, _)
scan_processes(procs, order, killable) ==
    IF order = <<>>
    THEN [kills |-> <<>>, violations |-> <<>>]
    ELSE LET pid == order[1]
             rest == scan_processes(procs, Tail(order), killable)
             name == to_lowercase(procs[pid])
             killed == pid \in killable
         IN  IF is_banned_proc(procs[pid])
             THEN [kills |-> <<[pid |-> pid, ok |-> killed]>> \o rest.kills,
                   violations |->
                       <<Violation(name, "process", killed)>> \o rest.violations]
             ELSE rest

\* The loops of scan_dns_cache and scan_window_titles over banned_domains,
\* iterated in `order`, with their `seen` set; `with_base` is the title
\* probe's extra match on the first label.
RECURSIVE scan_domains(_, _, _, _)
scan_domains(stdout, order, seen, with_base) ==
    IF order = <<>>
    THEN <<>>
    ELSE LET domain == order[1]
             base == first_label(domain)
             found == \/ contains(stdout, domain)
                      \/ with_base /\ contains(stdout, base)
         IN  IF found /\ domain \notin seen
             THEN <<Violation(domain, "domain", FALSE)>>
                  \o scan_domains(stdout, Tail(order), seen \cup {domain}, with_base)
             ELSE scan_domains(stdout, Tail(order), seen, with_base)

\* Both probes without their final `else` branch (every platform treated as
\* one that has the command).
probe_everywhere == TRUE

\* Whether the platform has a resolver-cache / window-title command at all.
probe_supported == platform \in {"windows", "macos"}

\* flush_dns called inside the loop, at each match.
flush_on_each_match(violations) == [i \in 1..Len(violations) |-> i]

\* `if !violations.is_empty() { self.flush_dns(); }` after the loop: the calls
\* of flush_dns, each with the number of matches collected when it was made.
flush_calls(violations) ==
    IF violations # <<>> THEN <<Len(violations)>> ELSE <<>>

\* Monitor::scan_dns_cache; `output` is what the platform command returned.
scan_dns_cache(output, order) ==
    IF ~probe_supported \/ output = None
    THEN [violations |-> <<>>, flushes |-> <<>>]
    ELSE LET stdout == to_lowercase(output[1])
             violations == scan_domains(stdout, order, {}, FALSE)
         IN  [violations |-> violations,
              flushes |-> flush_calls(violations)]

\* scan_window_titles without its `|| stdout.contains(base)`.
scan_window_titles_whole_domain(output, order) ==
    IF ~probe_supported \/ output = None
    THEN <<>>
    ELSE scan_domains(to_lowercase(output[1]), order, {}, FALSE)

\* Monitor::scan_window_titles
scan_window_titles(output, order) ==
    IF ~probe_supported \/ output = None
    THEN <<>>
    ELSE scan_domains(to_lowercase(output[1]), order, {}, TRUE)

StreamIdle ==
    /\ cfg = [interval_ms |-> streaming_default_interval_ms,
              reconnect_secs |-> streaming_default_reconnect_secs]
    /\ pc = "connect"
    /\ link = "none"
    /\ last_hash = EmptyString
    /\ jpeg_bytes = None
    /\ result = "running"
    /\ wire = <<>>
    /\ prev_last = None
    /\ iter = [path |-> "none", enc |-> None, screen |-> <<>>]
    /\ naps = <<>>
    /\ waits = <<>>
    /\ attempts = 0
    /\ fails = 0
    /\ replied = FALSE

\* main: Monitor::new(&cfg.monitor, hostname, username)
ScanInit ==
    /\ StreamIdle
    /\ platform \in {"windows", "macos", "linux"}
    /\ \E bp \in BanProcLists, bd \in BanDomainLists :
         monitor = Monitor_new(bp, bd, hostname, username)
    /\ main_pc = "scan"
    /\ cycle = NoCycle
    /\ guard = FreeGuard
    /\ shot = NoShot
    /\ ServicesIdle

\* Elements put in front of the vector instead of behind it.
extend_front(all, more) == more \o all

\* Vec::extend, as full_scan uses it on `all`.
extend(all, more) == all \o more

\* `mon.lock()` returns at once only while nobody holds the mutex.
mutex_ignored == TRUE

\* The streaming task keeping the Monitor locked while it is connected.
mutex_held_by_session == guard.lock = "free" /\ link # "up"

mutex_available == guard.lock = "free"

\* A reload that adds the new entries to the lists instead of replacing them.
with_bans_added(m, banned_procs, banned_domains) ==
    [m EXCEPT !.banned_procs = @ \cup lowercased(banned_procs),
              !.banned_domains = @ \cup lowercased(banned_domains)]

\* The body of Monitor::update_bans: both lists replaced, lowercased.
with_bans(m, banned_procs, banned_domains) ==
    [m EXCEPT !.banned_procs = lowercased(banned_procs),
              !.banned_domains = lowercased(banned_domains)]

\* Monitor::update_bans, from taking the mutex that main's scan task takes to
\* releasing it; it runs between two cycles.
update_bans ==
    /\ main_pc = "scan"
    /\ mutex_available
    /\ \E bp \in BanProcLists, bd \in BanDomainLists :
         monitor' = with_bans(monitor, bp, bd)
    /\ UNCHANGED <<platform, main_pc, cycle, guard>>
    /\ UNCHANGED beyond_scan

\* The pids of `procs` the process probe flags.
flagged(procs) == {pid \in DOMAIN procs : is_banned_proc(procs[pid])}

\* main's loop, first half: the blocking task locks the monitor
\* (`mon.lock().expect(..)`, which needs a mutex that is not poisoned) and runs
\* Monitor::full_scan: the three probes in order, results concatenated.
\* Processes that are not flagged leave no trace, so only the order among
\* the flagged ones is chosen.
full_scan ==
    /\ main_pc = "scan"
    /\ mutex_available
    /\ ~poisoned
    /\ main_pc' = "record"
    /\ \E procs \in ProcTables,
          dns \in CommandOutputs(DnsTexts),
          titles \in CommandOutputs(TitleTexts) :
         \E porder \in Orders(flagged(procs)),
            killable \in SUBSET flagged(procs),
            dorder \in Orders(monitor.banned_domains),
            torder \in Orders(monitor.banned_domains) :
            LET p == scan_processes(procs, porder, killable)
                d == scan_dns_cache(dns, dorder)
                t == scan_window_titles(titles, torder)
            IN  cycle' = [procs |-> procs,
                          dns |-> dns,
                          titles |-> titles,
                          kills |-> p.kills,
                          flushes |-> d.flushes,
                          violations |->
                              extend(extend(p.violations, d.violations), t),
                          by_procs |-> Len(p.violations),
                          by_dns |-> Len(d.violations)]
    /\ UNCHANGED <<platform, monitor, guard>>
    /\ UNCHANGED beyond_scan

\* main's loop, second half: the violations are handed on one by one, then
\* tokio::time::sleep(scan_interval) and the next turn.
record_and_sleep ==
    /\ main_pc = "record"
    /\ main_pc' = "scan"
    /\ cycle' = NoCycle
    /\ UNCHANGED <<platform, monitor, guard>>
    /\ UNCHANGED beyond_scan

ScanNext ==
    \/ full_scan
    \/ record_and_sleep
    \/ update_bans

ScanSpec == ScanInit /\ [][ScanNext]_vars

----------------------------------------------------------------------------
(* The mutex around the detector: one full_scan probe by probe, and a      *)
(* reload of the ban lists beside it                                       *)

\* The ban lists a probe finds in the Monitor it was handed.
ban_lists == [procs |-> monitor.banned_procs, domains |-> monitor.banned_domains]

\* main's loop: tokio::task::spawn_blocking(move || { mon.lock() ... }); the
\* blocking task now waits for the mutex.
ScanSpawn ==
    /\ guard.scan_at = "idle"
    /\ guard' = [guard EXCEPT !.scan_at = "waiting"]
    /\ UNCHANGED <<platform, monitor, main_pc, cycle>>
    /\ UNCHANGED beyond_scan

\* `let mut guard = mon.lock().expect(..)` returns in the blocking task.
ScanLock ==
    /\ guard.scan_at = "waiting"
    /\ mutex_available
    /\ guard' = [guard EXCEPT !.lock = "scan", !.scan_at = "procs",
                              !.reads = <<>>]
    /\ UNCHANGED <<platform, monitor, main_pc, cycle>>
    /\ UNCHANGED beyond_scan

\* The order of the probes inside Monitor::full_scan.
next_probe(at) ==
    CASE at = "procs" -> "dns"
      [] at = "dns" -> "titles"
      [] at = "titles" -> "done"

\* One probe of guard.full_scan(): it reads the ban lists of the Monitor.
ScanProbe ==
    /\ guard.scan_at \in {"procs", "dns", "titles"}
    /\ guard' = [guard EXCEPT !.scan_at = next_probe(@),
                              !.reads = Append(@, ban_lists)]
    /\ UNCHANGED <<platform, monitor, main_pc, cycle>>
    /\ UNCHANGED beyond_scan

\* The closure returns: the MutexGuard is dropped.
ScanUnlock ==
    /\ guard.scan_at = "done"
    /\ guard' = [guard EXCEPT !.lock = "free", !.scan_at = "idle"]
    /\ UNCHANGED <<platform, monitor, main_pc, cycle>>
    /\ UNCHANGED beyond_scan

\* The hot-reload path has new lists and asks for the mutex.
ReloadRequest ==
    /\ guard.reload_at = "idle"
    /\ \E bp \in BanProcLists, bd \in BanDomainLists :
         guard' = [guard EXCEPT
                      !.reload_at = "waiting",
                      !.pending = Some([procs |-> bp, domains |-> bd])]
    /\ UNCHANGED <<platform, monitor, main_pc, cycle>>
    /\ UNCHANGED beyond_scan

\* The hot-reload path obtains the mutex.
ReloadLock ==
    /\ guard.reload_at = "waiting"
    /\ mutex_available
    /\ guard' = [guard EXCEPT !.lock = "reload", !.reload_at = "locked"]
    /\ UNCHANGED <<platform, monitor, main_pc, cycle>>
    /\ UNCHANGED beyond_scan

\* Monitor::update_bans(&mut self, ..) on the locked Monitor.
ReloadApply ==
    /\ guard.reload_at = "locked"
    /\ monitor' = with_bans(monitor, guard.pending[1].procs,
                            guard.pending[1].domains)
    /\ guard' = [guard EXCEPT !.reload_at = "applied"]
    /\ UNCHANGED <<platform, main_pc, cycle>>
    /\ UNCHANGED beyond_scan

\* The hot-reload path lets go of the mutex.
ReloadUnlock ==
    /\ guard.reload_at = "applied"
    /\ guard' = [guard EXCEPT !.lock = "free", !.reload_at = "idle",
                              !.pending = None]
    /\ UNCHANGED <<platform, monitor, main_pc, cycle>>
    /\ UNCHANGED beyond_scan

LockNext ==
    \/ ScanSpawn
    \/ ScanLock
    \/ ScanProbe
    \/ ScanUnlock
    \/ ReloadRequest
    \/ ReloadLock
    \/ ReloadApply
    \/ ReloadUnlock

LockSpec == ScanInit /\ [][LockNext]_vars

----------------------------------------------------------------------------
(* Screen capture with retries (screenshot.rs) *)

\* What one turn of the retry loop can meet: Screen::all() fails, it returns
\* no screen, the first screen's capture() fails, or an image comes back.
ScreenOutcomes ==
    {<<"all_err">>, <<"no_screen">>, <<"capture_err">>}
        \cup {<<"ok", img>> : img \in Images}

\* The loop sleeping after every failed attempt, the last one included.
sleep_after_each(attempt) == TRUE

\* `if attempt < 2`
sleep_between(attempt) == attempt < 2

\* Option::ok_or
ok_or(opt, err) == IF opt # None THEN <<"Ok", opt[1]>> ELSE <<"Err", err>>

\* The detector as main builds it from an empty configuration, untouched.
DetectorIdle ==
    /\ platform = "linux"
    /\ monitor = Monitor_new({}, {}, hostname, username)
    /\ main_pc = "scan"
    /\ cycle = NoCycle
    /\ guard = FreeGuard

CaptureInit ==
    /\ StreamIdle
    /\ DetectorIdle
    /\ shot = NoShot
    /\ ServicesIdle

\* One turn of `for attempt in 0..3`.
CaptureAttempt ==
    /\ shot.at = "loop"
    /\ \E o \in ScreenOutcomes :
         IF o[1] = "ok"
         THEN shot' = [shot EXCEPT !.screen_capture = Some(o[2]),
                                   !.tried = Append(@, o),
                                   !.at = "after"]
         ELSE shot' = [shot EXCEPT
                          !.last_err = IF o[1] = "no_screen" THEN @ ELSE o[1],
                          !.tried = Append(@, o),
                          !.sleeps = IF sleep_between(shot.attempt)
                                     THEN Append(@, capture_retry_delay_ms)
                                     ELSE @,
                          !.attempt = @ + 1,
                          !.at = IF shot.attempt + 1 < capture_attempts
                                 THEN "loop" ELSE "after"]
    /\ UNCHANGED beyond_capture

\* `screen_capture.ok_or(last_err)?`: the image goes on to be encoded, or the
\* error is returned.
CaptureReturn ==
    /\ shot.at = "after"
    /\ shot' = [shot EXCEPT
                   !.returned = Some(ok_or(shot.screen_capture, shot.last_err)),
                   !.at = "done"]
    /\ UNCHANGED beyond_capture

\* The snapshot loop's next turn calls try_capture_screenshot again.
CaptureAgain ==
    /\ shot.at = "done"
    /\ shot' = NoShot
    /\ UNCHANGED beyond_capture

CaptureNext ==
    \/ CaptureAttempt
    \/ CaptureReturn
    \/ CaptureAgain

CaptureSpec == CaptureInit /\ [][CaptureNext]_vars

----------------------------------------------------------------------------
(* main's two loops side by side: the streaming task spawned at startup    *)
(* and the scan loop, with a reload between cycles                         *)

\* The streaming task was handed clones of the streaming configuration and of
\* the hostname; the Monitor is built afterwards and stays with the scan loop.
AgentInit ==
    /\ StreamIdle
    /\ platform = "windows"
    /\ monitor = Monitor_new({}, {}, hostname, username)
    /\ main_pc = "scan"
    /\ cycle = NoCycle
    /\ guard = FreeGuard
    /\ shot = NoShot
    /\ ServicesIdle

\* The session is followed through its first AgentMaxAttempts connections and
\* the first AgentMaxWire messages of a connection.
StreamQuota ==
    /\ pc = "connect" => attempts < AgentMaxAttempts
    /\ Len(wire) < AgentMaxWire

\* The cycles followed are those that find at most AgentMaxProcs processes,
\* the reloads those that leave at most AgentMaxBans entries in the two lists.
ScanQuota ==
    /\ Cardinality(DOMAIN cycle.procs) <= AgentMaxProcs
    /\ Cardinality(monitor.banned_procs) + Cardinality(monitor.banned_domains)
           <= AgentMaxBans

AgentNext ==
    \/ StreamQuota /\ Connect
    \/ StreamQuota /\ Handshake
    \/ StreamQuota /\ FrameSleep
    \/ StreamQuota /\ CaptureFrame
    \/ StreamQuota /\ SendFrame
    \/ StreamQuota /\ ReconnectSleep
    \/ StreamQuota /\ LinkBreak
    \/ StreamQuota /\ RemoteReply
    \/ full_scan /\ ScanQuota'
    \/ record_and_sleep
    \/ update_bans /\ ScanQuota'

AgentSpec == AgentInit /\ [][AgentNext]_vars

----------------------------------------------------------------------------
(* Claims about the streaming session *)

Streaming == pc \in {"sleep", "capture", "send"}

\* A step of CaptureFrame (the environment's steps leave pc alone).
CaptureStep == pc = "capture" /\ pc' # pc

\* C1: within one connection no two binary frames written one after the
\* other carry identical bytes, whatever captures failed or were skipped
\* between them.
C1_NoConsecutiveDuplicate ==
    \A i \in 1..(Len(wire) - 1) :
        (wire[i].kind = "binary" /\ wire[i + 1].kind = "binary")
            => wire[i].body # wire[i + 1].body

\* Two frames went out on one connection, with an unchanged frame skipped
\* right before the state.
C1_Witness ==
    /\ Len(wire) >= 3
    /\ wire[2].kind = "binary" /\ wire[3].kind = "binary"
    /\ iter.path = "unchanged"

C2_Log ==
    /\ \A i \in DOMAIN wire :
          IF i = 1
          THEN /\ wire[i].kind = "text"
               /\ wire[i].body = [role |-> "student", hostname |-> hostname]
          ELSE wire[i].kind = "binary"
    /\ Streaming => (wire # <<>> /\ wire[1].ok)
    /\ pc = "handshake" => wire = <<>>

C2_NoReplyNeeded ==
    (pc = "handshake" /\ wire' # wire /\ Last(wire').ok) => pc' = "sleep"

\* C2: on every connection the first message written is the text handshake
\* {role: "student", hostname}, every later message is a binary frame, the
\* frame loop is entered only after the handshake was written, and it is
\* entered as soon as that write succeeds, whether or not the remote replied.
C2_HandshakeFirst == []C2_Log /\ [][C2_NoReplyNeeded]_vars

\* A frame is about to be written on a reconnect, and the remote has not
\* written anything on this connection.
C2_Witness ==
    /\ pc = "send"
    /\ ~replied
    /\ prev_last # None
    /\ Len(wire) = 2

C3_Iteration ==
    (CaptureStep /\ iter'.enc # None) =>
        /\ (pc' = "send") <=> (sha256_hash(iter'.enc[1]) # last_hash)
        /\ pc' = "send" =>
              /\ jpeg_bytes' = iter'.enc
              /\ last_hash' = sha256_hash(iter'.enc[1])
        /\ pc' # "send" =>
              /\ pc' = "sleep"
              /\ UNCHANGED <<last_hash, jpeg_bytes, wire, link, result>>

C3_StoredOnlyOnSend ==
    (last_hash' # last_hash) =>
        \/ pc = "handshake"
        \/ CaptureStep /\ pc' = "send" /\ last_hash' = sha256_hash(jpeg_bytes'[1])

C3_Cadence ==
    /\ pc = "capture" => naps = <<cfg.interval_ms>>
    /\ pc = "sleep" => naps = <<>>

\* C3: an iteration that captured and encoded a frame hands it to the writer
\* iff its fingerprint differs from the stored one; the stored fingerprint
\* changes only then, to that frame's fingerprint; a skipped duplicate changes
\* nothing, and every capture is preceded by exactly one frame-interval sleep.
C3_SendIffChanged ==
    [][C3_Iteration /\ C3_StoredOnlyOnSend]_vars /\ []C3_Cadence

\* A duplicate was just skipped after a frame had been sent.
C3_Witness ==
    /\ pc = "sleep"
    /\ iter.path = "unchanged"
    /\ Len(wire) = 2 /\ Last(wire).body = iter.enc[1]
    /\ last_hash = sha256_hash(iter.enc[1])

C4_FirstFrame ==
    (CaptureStep /\ Len(wire) = 1 /\ iter'.enc # None) =>
        (pc' = "send" /\ jpeg_bytes' = iter'.enc)

\* C4: on every connection the first frame that is captured and encoded is
\* written, also when it equals the last frame of the previous connection.
C4_FingerprintReset == [][C4_FirstFrame]_vars

\* The first frame of a reconnect is about to be written and is identical
\* to the last frame written on the previous connection.
C4_Witness ==
    /\ pc = "send"
    /\ Len(wire) = 1
    /\ prev_last # None
    /\ prev_last[1].kind = "binary"
    /\ prev_last[1].body = jpeg_bytes[1]

C5_Waits ==
    /\ (pc = "connect" /\ attempts > 0) => waits = <<cfg.reconnect_secs>>
    /\ pc = "closed" => waits = <<>>

C5_Order ==
    /\ (pc = "closed" /\ pc' # pc) =>
          (pc' = "connect" /\ waits' = <<cfg.reconnect_secs>>)
    /\ (pc' = "connect" /\ pc # pc') => pc = "closed"
    /\ (pc' = "closed" /\ pc # pc') => (result' # "running" /\ link' = "none")

\* C5: every session end leads to exactly one sleep of cfg.reconnect_secs and
\* only then to the next connect attempt; the sleep has that length after any
\* number of consecutive failures, and no connect attempt but the first
\* happens without it.
C5_FixedReconnectWait == []C5_Waits /\ [][C5_Order]_vars

\* Three sessions in a row failed and the next attempt is due.
C5_Witness ==
    /\ pc = "connect"
    /\ fails = 3
    /\ cfg.reconnect_secs > 0

\* C6: the streaming task always has a next step, and after a session ended
\* (however many failed before) a connect attempt follows.
C6_NeverGivesUp ==
    /\ [](ENABLED StreamAgent)
    /\ (pc = "closed") ~> (pc = "connect")
    /\ (pc = "connect") ~> (pc \in {"handshake", "closed"})

\* A session is closed after a failed frame write, several attempts in.
C6_Witness ==
    /\ pc = "closed"
    /\ result = "send_error"
    /\ attempts = MaxAttempts

C7_Closes ==
    (pc = "send" /\ wire' # wire /\ ~Last(wire').ok) =>
        (pc' = "closed" /\ result' = "send_error")

C7_NothingAfter ==
    (wire # <<>> /\ ~Last(wire).ok) =>
        /\ pc \in {"closed", "connect"}
        /\ jpeg_bytes = None

C7_NextIsHandshake ==
    (wire # <<>> /\ ~Last(wire).ok /\ wire' # wire) =>
        (wire' = <<>> /\ pc' = "handshake")

\* C7: a failed frame write ends the session with an error at once; nothing
\* is captured or written on that connection afterwards, and the next message
\* written is the handshake of a new connection.
C7_SendFailureCloses ==
    [][C7_Closes /\ C7_NextIsHandshake]_vars /\ []C7_NothingAfter

\* The handshake of the connection that follows a failed frame write.
C7_Witness ==
    /\ Len(wire) = 1
    /\ wire[1].kind = "text"
    /\ prev_last # None
    /\ prev_last[1].kind = "binary"
    /\ ~prev_last[1].ok

\* C8: once the connection is broken while the session streams, the session
\* ends (and the reconnect follows), for every sequence of captured frames.
C8_BreakEndsSession ==
    ([]<>(pc = "sleep" /\ iter.enc # None))
        => ((Streaming /\ link = "broken") ~> (pc = "closed"))

----------------------------------------------------------------------------
(* Claims about the violation detector *)

\* Simple case folding: the letter a character is a case form of.
fold(c) ==
    CASE c \in {"A", "a"} -> "a"
      [] c \in {"B", "b"} -> "b"
      [] c \in {"E", "e"} -> "e"
      [] c \in {"X", "x"} -> "x"
      [] c \in Sigmas -> "sigma"
      [] OTHER -> c

\* s and t are the same name up to letter case.
SameIgnoringCase(s, t) ==
    /\ Len(s) = Len(t)
    /\ \A i \in 1..Len(s) : fold(s[i]) = fold(t[i])

\* The cycle's kill attempts on process `pid`.
KillsOf(pid) == {i \in DOMAIN cycle.kills : cycle.kills[i].pid = pid}

\* C9: when the ban list holds P and a process named P or P + ".exe", in any
\* letter case, is running, the cycle attempts to terminate that process once
\* and returns exactly one Violation of kind Process for it.
C9_BannedProcessFlagged ==
    main_pc = "record" =>
        \A pid \in DOMAIN cycle.procs, P \in monitor.banned_procs :
            (\/ SameIgnoringCase(cycle.procs[pid], P)
             \/ SameIgnoringCase(cycle.procs[pid], P \o ExeSuffix))
            => /\ Cardinality(KillsOf(pid)) = 1
               /\ \A i \in KillsOf(pid) :
                     /\ cycle.violations[i].kind = "process"
                     /\ SameIgnoringCase(cycle.violations[i].target,
                                         cycle.procs[pid])

\* C10: the list one full_scan returns holds no two Violations with the same
\* target.
C10_OnePerTarget ==
    \A i, j \in DOMAIN cycle.violations :
        i # j => cycle.violations[i].target # cycle.violations[j].target

\* s without a trailing ".exe".
without_exe(s) == unwrap_or(strip_suffix(s, ExeSuffix), s)

\* C11 (as stated): a running process is flagged exactly when its name and
\* some ban entry are equal after lowercasing both and taking a trailing
\* ".exe" off both.
C11_ExeIgnoredOnBothSides ==
    main_pc = "record" =>
        \A pid \in DOMAIN cycle.procs :
            KillsOf(pid) # {}
            <=> \E B \in monitor.banned_procs :
                    without_exe(to_lowercase(cycle.procs[pid]))
                        = without_exe(to_lowercase(B))

\* C11 (amended): a running process is flagged exactly when its lowercased
\* name, as it is or with a trailing ".exe" taken off, equals some lowercased
\* ban entry; the suffix is taken off the process name only, never off the
\* entry.
C11_ExeIgnoredOnProcessName ==
    main_pc = "record" =>
        \A pid \in DOMAIN cycle.procs :
            KillsOf(pid) # {}
            <=> \E B \in monitor.banned_procs :
                    \/ to_lowercase(cycle.procs[pid]) = to_lowercase(B)
                    \/ without_exe(to_lowercase(cycle.procs[pid]))
                           = to_lowercase(B)

\* Entry "a.exe" in the list, process "a" running and left alone, process
\* "A.EXE" running and flagged.
C11_Witness ==
    /\ main_pc = "record"
    /\ monitor.banned_procs = {<<"a", ".", "e", "x", "e">>}
    /\ \E p, q \in DOMAIN cycle.procs :
         /\ cycle.procs[p] = <<"a">>
         /\ KillsOf(p) = {}
         /\ cycle.procs[q] = <<"A", ".", "E", "X", "E">>
         /\ KillsOf(q) # {}

\* The banned domains the resolver-cache text of the cycle holds, and those
\* the window titles hold (whole, or by their first label).
DnsHits ==
    IF ~probe_supported \/ cycle.dns = None
    THEN {}
    ELSE {d \in monitor.banned_domains :
              contains(to_lowercase(cycle.dns[1]), d)}

TitleHits ==
    IF ~probe_supported \/ cycle.titles = None
    THEN {}
    ELSE {d \in monitor.banned_domains :
              \/ contains(to_lowercase(cycle.titles[1]), d)
              \/ contains(to_lowercase(cycle.titles[1]), first_label(d))}

\* The violations of the cycle that came from the window-title probe.
by_titles == Len(cycle.violations) - cycle.by_procs - cycle.by_dns

\* C12: each banned process found has one Violation whose action_taken is
\* what its termination attempt returned; a failed termination stops nothing:
\* every banned process of the table is still attempted, and the
\* resolver-cache and window-title probes of the same cycle still report
\* their matches.
C12_KillFailureRecorded ==
    main_pc = "record" =>
        /\ cycle.by_procs = Len(cycle.kills)
        /\ \A i \in 1..cycle.by_procs :
             /\ cycle.violations[i].kind = "process"
             /\ cycle.violations[i].action_taken = cycle.kills[i].ok
        /\ {cycle.kills[i].pid : i \in DOMAIN cycle.kills} = flagged(cycle.procs)
        /\ cycle.by_dns = Cardinality(DnsHits)
        /\ by_titles = Cardinality(TitleHits)

\* The first termination failed; a second banned process was terminated
\* after it and both probes that follow reported a domain.
C12_Witness ==
    /\ main_pc = "record"
    /\ Len(cycle.kills) = 2
    /\ ~cycle.kills[1].ok
    /\ ~cycle.violations[1].action_taken
    /\ cycle.kills[2].ok
    /\ cycle.violations[2].action_taken
    /\ cycle.by_dns > 0
    /\ by_titles > 0

\* t occurs in s, letter case ignored.
OccursIgnoringCase(s, t) ==
    \E i \in 0..(Len(s) - Len(t)) :
        SameIgnoringCase(SubSeq(s, i + 1, i + Len(t)), t)

\* Positions of the cycle's violations that came from the resolver-cache
\* probe, and from the window-title probe.
DnsPart == (cycle.by_procs + 1)..(cycle.by_procs + cycle.by_dns)
TitlePart == (cycle.by_procs + cycle.by_dns + 1)..Len(cycle.violations)

\* The violations at positions `part` that carry target D.
ReportsOf(part, D) == {i \in part : cycle.violations[i].target = D}

\* C13: when the resolver-cache text was read, each banned domain D that
\* occurs in it, in any letter case and any number of times, is reported by
\* the resolver-cache probe exactly once, as a Violation of kind Domain with
\* action_taken false; a banned domain that does not occur is not reported.
C13_DnsOnePerDomain ==
    (main_pc = "record" /\ probe_supported /\ cycle.dns # None) =>
        \A D \in monitor.banned_domains :
            IF OccursIgnoringCase(cycle.dns[1], D)
            THEN /\ Cardinality(ReportsOf(DnsPart, D)) = 1
                 /\ \A i \in ReportsOf(DnsPart, D) :
                        /\ cycle.violations[i].kind = "domain"
                        /\ ~cycle.violations[i].action_taken
            ELSE ReportsOf(DnsPart, D) = {}

\* C14: in one cycle flush_dns is called iff the resolver-cache probe matched
\* at least one banned domain; it is called once, when all the probe's
\* matches have been collected; matches of the process probe and of the
\* window-title probe cause no call.
C14_FlushIffDnsMatch ==
    main_pc = "record" =>
        IF cycle.by_dns > 0
        THEN cycle.flushes = <<cycle.by_dns>>
        ELSE cycle.flushes = <<>>

\* Two banned domains matched in the resolver cache, and one flush after both.
C14_Witness ==
    /\ main_pc = "record"
    /\ cycle.by_dns = 2
    /\ cycle.flushes = <<2>>
    /\ cycle.by_procs > 0
    /\ by_titles > 0

\* C15: when the window titles were read, the window-title probe reports a
\* banned domain D exactly once, as a Violation of kind Domain with
\* action_taken false, if the lowercased titles contain D or D's first label,
\* however often; it does not report D otherwise.
C15_TitleOnePerDomain ==
    (main_pc = "record" /\ probe_supported /\ cycle.titles # None) =>
        \A D \in monitor.banned_domains :
            LET stdout == to_lowercase(cycle.titles[1])
            IN  IF contains(stdout, D) \/ contains(stdout, first_label(D))
                THEN /\ Cardinality(ReportsOf(TitlePart, D)) = 1
                     /\ \A i \in ReportsOf(TitlePart, D) :
                            /\ cycle.violations[i].kind = "domain"
                            /\ ~cycle.violations[i].action_taken
                ELSE ReportsOf(TitlePart, D) = {}

\* The titles hold "a.b" twice and of "b.e" the first label only; each of the
\* two domains is reported once.
C15_Witness ==
    /\ main_pc = "record"
    /\ probe_supported
    /\ cycle.titles = Some(<<"x", ".", "a", ".", "b", "x", " ", "A", ".", "b">>)
    /\ monitor.banned_domains = {<<"a", ".", "b">>, <<"b", ".", "e">>}
    /\ Cardinality(ReportsOf(TitlePart, <<"a", ".", "b">>)) = 1
    /\ Cardinality(ReportsOf(TitlePart, <<"b", ".", "e">>)) = 1
    /\ by_titles = 2

\* The OS facility of the resolver-cache probe, and of the window-title probe,
\* was not there in this cycle: no command for the platform, or the command
\* could not be run.
DnsUnavailable == platform \notin {"windows", "macos"} \/ cycle.dns = None
TitlesUnavailable == platform \notin {"windows", "macos"} \/ cycle.titles = None

\* C16: a probe whose OS facility is unavailable returns nothing and aborts
\* nothing: the process probe's violations are returned as always, and so are
\* those of the other domain probe if its own facility is there.
C16_UnavailableProbeIsEmpty ==
    main_pc = "record" =>
        /\ DnsUnavailable =>
             /\ cycle.by_dns = 0
             /\ cycle.flushes = <<>>
        /\ TitlesUnavailable => by_titles = 0
        /\ (DnsUnavailable \/ TitlesUnavailable) =>
             /\ {cycle.kills[i].pid : i \in DOMAIN cycle.kills}
                    = flagged(cycle.procs)
             /\ cycle.by_procs = Cardinality(flagged(cycle.procs))
             /\ ~DnsUnavailable =>
                    cycle.by_dns = Cardinality(
                        {d \in monitor.banned_domains :
                             contains(to_lowercase(cycle.dns[1]), d)})
             /\ ~TitlesUnavailable =>
                    by_titles = Cardinality(
                        {d \in monitor.banned_domains :
                             \/ contains(to_lowercase(cycle.titles[1]), d)
                             \/ contains(to_lowercase(cycle.titles[1]),
                                         first_label(d))})

\* The resolver-cache command could not be run on a platform that has one; the
\* cycle still returned a process violation and a window-title violation.
C16_Witness ==
    /\ main_pc = "record"
    /\ platform = "windows"
    /\ cycle.dns = None
    /\ cycle.titles # None
    /\ cycle.by_dns = 0
    /\ cycle.by_procs > 0
    /\ by_titles > 0

----------------------------------------------------------------------------
(* Claims about the mutex around the detector *)

ScanHolds == guard.scan_at \in {"procs", "dns", "titles", "done"}
ReloadHolds == guard.reload_at \in {"locked", "applied"}

\* C17: a scan cycle and a reload of the ban lists never interleave: the scan
\* task and the reload never hold the detector at the same time, and the
\* probes of one full_scan all read the same ban lists.
C17_ScanAndReloadExclusive ==
    /\ ~(ScanHolds /\ ReloadHolds)
    /\ \A i, j \in DOMAIN guard.reads : guard.reads[i] = guard.reads[j]

\* All three probes of a full_scan have run while a reload with other lists
\* was waiting for the mutex.
C17_Witness ==
    /\ guard.scan_at = "done"
    /\ Len(guard.reads) = 3
    /\ guard.reload_at = "waiting"
    /\ lowercased(guard.pending[1].procs) # monitor.banned_procs

\* s holds no uppercase letter.
IsLowercase(s) == \A i \in DOMAIN s : s[i] \notin UpperLetters \cup {"SIGMA"}

\* C18: whatever the letter case of the lists given to Monitor::new and to
\* each update_bans, every entry of the process ban list and of the domain ban
\* list is lowercase in every state.
C18_BanListsLowercase ==
    \A e \in monitor.banned_procs \cup monitor.banned_domains : IsLowercase(e)

\* update_bans has just replaced the lists by ones given with capital letters.
C18_Witness ==
    /\ guard.reload_at = "applied"
    /\ guard.pending = Some([procs |-> {<<"A">>, <<"b">>},
                             domains |-> {<<"a", ".", "b">>, <<"B", ".", "e">>}])
    /\ monitor.banned_procs = {<<"a">>, <<"b">>}
    /\ monitor.banned_domains = {<<"a", ".", "b">>, <<"b", ".", "e">>}

----------------------------------------------------------------------------
(* Claims about screen capture *)

\* The attempts of the current call that failed.
FailedAttempts == {i \in DOMAIN shot.tried : shot.tried[i][1] # "ok"}

\* C20: capture makes at most 3 attempts; it sleeps a fixed 500 ms after a
\* failed attempt that is not the third, and never otherwise; once it returns,
\* the result is the image of the first attempt that succeeded, whatever
\* failed before it, and an error exactly when three attempts were made and
\* all failed.
C20_CaptureRetries ==
    /\ Len(shot.tried) <= 3
    /\ \A i \in DOMAIN shot.tried : i < Len(shot.tried) => i \in FailedAttempts
    /\ \A i \in DOMAIN shot.sleeps : shot.sleeps[i] = 500
    /\ Len(shot.sleeps) = Min(Cardinality(FailedAttempts), 2)
    /\ shot.at = "done" =>
         IF FailedAttempts = DOMAIN shot.tried
         THEN /\ Len(shot.tried) = 3
              /\ shot.returned[1][1] = "Err"
         ELSE shot.returned = Some(<<"Ok", Last(shot.tried)[2]>>)

\* Fail, fail, succeed: the third attempt's image is returned after two
\* sleeps.
C20_Witness ==
    /\ shot.at = "done"
    /\ Len(shot.tried) = 3
    /\ FailedAttempts = {1, 2}
    /\ shot.returned = Some(<<"Ok", shot.tried[3][2]>>)
    /\ shot.sleeps = <<500, 500>>

----------------------------------------------------------------------------
(* Claims about the two loops together *)

\* C19: the streaming loop and the scan loop share no mutable state: a step
\* that changes anything of the streaming session leaves the detector (ban
\* lists, cycle results, the loop's position, the mutex) as it was, a step
\* that changes anything of the detector leaves the session (connection,
\* fingerprint, position, messages written) as it was, and whatever the
\* session is doing a scan cycle can start as soon as the scan loop is due and
\* the mutex is free.
C19_LoopsIndependent ==
    /\ []((main_pc = "scan" /\ guard.lock = "free") => ENABLED full_scan)
    /\ [][/\ stream_vars' # stream_vars =>
               UNCHANGED <<platform, monitor, main_pc, cycle, guard>>
          /\ <<scan_vars, guard>>' # <<scan_vars, guard>> =>
               UNCHANGED <<pc, link, last_hash, jpeg_bytes, result, wire>>]_vars

\* A frame has gone out on a live connection, the fingerprint is stored, and
\* a scan cycle under reloaded ban lists has just returned violations.
C19_Witness ==
    /\ link = "up"
    /\ Len(wire) = 2
    /\ last_hash # EmptyString
    /\ main_pc = "record"
    /\ monitor.banned_procs # {}
    /\ cycle.violations # <<>>

----------------------------------------------------------------------------
(* Claims about capture and encoding failures while streaming *)

\* The screen failed `k` times and then delivered an image.
FailsThenDelivers(display, k) ==
    /\ Len(display) = k + 1
    /\ \A i \in 1..k : display[i][1] = "err"
    /\ display[k + 1][1] = "ok"

\* C21: the streaming path retries a transient capture failure as
\* capture_screenshot does: an iteration during which the screen fails once
\* or twice (fewer times than capture_attempts) and then delivers an image
\* encodes that image as its frame.
C21_StreamingRetries ==
    \A k \in 1..(capture_attempts - 1) :
        FailsThenDelivers(iter.screen, k)
            => iter.enc = compress_to_jpeg(iter.screen[k + 1][2])

C30_Skip ==
    (CaptureStep /\ iter'.path \in {"capture_failed", "jpeg_failed"}) =>
        /\ pc' = "sleep"
        /\ UNCHANGED <<wire, last_hash, jpeg_bytes, link, result>>

C30_ThenOneInterval ==
    (pc = "sleep" /\ pc' # pc) =>
        /\ pc' = "capture"
        /\ naps' = <<cfg.interval_ms>>
        /\ UNCHANGED <<wire, last_hash, link, result>>

\* C30: an iteration whose capture_screen or compress_to_jpeg returns an
\* error writes nothing, leaves the stored fingerprint and the connection as
\* they are, does not end the session, and goes back to the frame-interval
\* sleep, after which the next capture is made.
C30_FailureSkipsFrame == [][C30_Skip /\ C30_ThenOneInterval]_vars

\* A capture just failed on a connection that had carried a frame; the
\* connection is still up and the fingerprint is that of the frame sent.
C30_Witness ==
    /\ pc = "sleep"
    /\ iter.path = "capture_failed"
    /\ link = "up"
    /\ Len(wire) = 2
    /\ last_hash = sha256_hash(Last(wire).body)

----------------------------------------------------------------------------
(* Binary floating point as f32 and f64 compute it (IEEE 754, round to      *)
(* nearest, ties to even).  A positive float of precision p is its p        *)
(* significant bits, most significant (a 1) first, and an exponent:         *)
(* value = 0.b1 b2 .. bp * 2^exp.  The sizes met here are far from the      *)
(* subnormal and the overflow range.                                        *)

f32_digits == 24    \* f32::MANTISSA_DIGITS
f64_digits == 53    \* f64::MANTISSA_DIGITS

\* +0.0
Zero == [bits |-> <<>>, exp |-> 0]

Max(a, b) == IF a > b THEN a ELSE b

Zeros(n) == [i \in 1..n |-> 0]

\* Digits are handled a chunk at a time.
ChunkBits == 8

\* The last k binary digits of a natural number, most significant first.
Padded(n, k) == [i \in 1..k |-> (n \div 2^(k - i)) % 2]

\* The binary digits of a natural number below 2^30, without leading zeros.
IntBits(n) ==
    Padded(n, CHOOSE k \in 0..30 : n < 2^k /\ (k = 0 \/ 2^(k - 1) <= n))

\* The natural number a sequence of binary digits spells (below 2^31).
RECURSIVE BitsInt(_)
BitsInt(bits) ==
    IF bits = <<>> THEN 0
    ELSE IF Len(bits) = 1 THEN bits[1]
    ELSE LET h == Len(bits) \div 2
         IN  BitsInt(SubSeq(bits, 1, h)) * 2^(Len(bits) - h)
                + BitsInt(SubSeq(bits, h + 1, Len(bits)))

LeadingZeros(bits) ==
    LET ones == {i \in DOMAIN bits : bits[i] = 1}
    IN  IF ones = {}
        THEN Len(bits)
        ELSE (CHOOSE i \in ones : \A j \in ones : i <= j) - 1

\* bits + 1; one digit longer when every digit was a 1.
Increment(bits) ==
    LET n == Len(bits)
        z == {i \in 1..n : bits[i] = 0}
    IN  IF z = {}
        THEN <<1>> \o Zeros(n)
        ELSE LET k == CHOOSE i \in z : \A j \in z : j <= i
             IN  [i \in 1..n |-> IF i < k THEN bits[i]
                                 ELSE IF i = k THEN 1 ELSE 0]

\* The float of precision p nearest to 0.bits * 2^exp (plus something below
\* the last digit when `sticky`), ties to the even neighbour.
RoundToNearest(p, bits, exp, sticky) ==
    LET z == LeadingZeros(bits)
        sig == SubSeq(bits, z + 1, Len(bits)) \o Zeros(p + 1)
        kept == SubSeq(sig, 1, p)
        half == sig[p + 1] = 1
        rest == sticky \/ \E i \in (p + 2)..Len(sig) : sig[i] = 1
        up == half /\ (rest \/ kept[p] = 1)
        inc == Increment(kept)
    IN  IF z = Len(bits) THEN Zero
        ELSE IF ~up THEN [bits |-> kept, exp |-> exp - z]
        ELSE IF Len(inc) = p THEN [bits |-> inc, exp |-> exp - z]
        ELSE [bits |-> SubSeq(inc, 1, p), exp |-> exp - z + 1]

\* `n as f32`, `f64::from(n)`
from_u32(n, p) == RoundToNearest(p, IntBits(n), Len(IntBits(n)), FALSE)

\* The first n binary digits of r / b after the point (0 <= r < b), and the
\* remainder left over.
RECURSIVE FractionBits(_, _, _)
FractionBits(r, b, n) ==
    IF n = 0
    THEN [bits |-> <<>>, rem |-> r]
    ELSE LET k == Min(n, ChunkBits)
             next == FractionBits((r * 2^k) % b, b, n - k)
         IN  [bits |-> Padded((r * 2^k) \div b, k) \o next.bits,
              rem |-> next.rem]

\* `a as f / b as f` for integers the float type holds exactly (below 2^p),
\* b > 0: the quotient correctly rounded.
div(a, b, p) ==
    LET whole == IntBits(a \div b)
        frac == FractionBits(a % b, b, p + 1 + Len(IntBits(b)))
    IN  RoundToNearest(p, whole \o frac.bits, Len(whole), frac.rem # 0)

\* bits * c + carry in binary, from the least significant digits up.
RECURSIVE TimesBits(_, _, _)
TimesBits(bits, c, carry) ==
    IF bits = <<>>
    THEN IntBits(carry)
    ELSE LET k == Min(Len(bits), ChunkBits)
             low == SubSeq(bits, Len(bits) - k + 1, Len(bits))
             t == BitsInt(low) * c + carry
         IN  TimesBits(SubSeq(bits, 1, Len(bits) - k), c, t \div 2^k)
                \o Padded(t % 2^k, k)

\* `c as f * x` for an integer c the float type holds exactly: the product
\* correctly rounded.
mul(c, x, p) ==
    IF c = 0 \/ x = Zero
    THEN Zero
    ELSE LET prod == TimesBits(x.bits, c, 0)
         IN  RoundToNearest(p, prod, x.exp + Len(prod) - Len(x.bits), FALSE)

\* `x as u32`: the fraction is dropped.
as_u32(x) ==
    IF x = Zero \/ x.exp <= 0
    THEN 0
    ELSE BitsInt(SubSeq(x.bits \o Zeros(x.exp), 1, x.exp))

\* f64::round: to the nearest integer, halves away from zero.
round(x) ==
    IF x = Zero \/ x.exp < 0
    THEN 0
    ELSE as_u32(x) + (IF x.exp < Len(x.bits) /\ x.bits[x.exp + 1] = 1
                      THEN 1 ELSE 0)

lt(x, y) ==
    IF y = Zero THEN FALSE
    ELSE IF x = Zero THEN TRUE
    ELSE IF x.exp # y.exp THEN x.exp < y.exp
    ELSE \E i \in DOMAIN x.bits :
            /\ x.bits[i] < y.bits[i]
            /\ \A j \in 1..(i - 1) : x.bits[j] = y.bits[j]

\* f64::min
min(x, y) == IF lt(y, x) THEN y ELSE x

----------------------------------------------------------------------------
(* Frame codec: the resize step of capture_screenshot and compress_to_jpeg *)

MaxSide == 6        \* widths, heights and limits 1..MaxSide
WideSide == 41      \* a side for which w as f32 * (1.0 / w as f32) < 1.0

Sides == 1..MaxSide \cup {WideSide}
MaxDimensions == 1..MaxSide

\* image::math::utils::resize_dimensions(width, height, nwidth, nheight,
\* fill = false), which DynamicImage::resize calls: the largest size of the
\* source's aspect ratio that fits in nwidth x nheight, never below 1 x 1.
resize_dimensions(width, height, nwidth, nheight) ==
    LET wratio == div(nwidth, width, f64_digits)
        hratio == div(nheight, height, f64_digits)
        ratio == min(wratio, hratio)
        nw == Max(round(mul(width, ratio, f64_digits)), 1)
        nh == Max(round(mul(height, ratio, f64_digits)), 1)
    IN  [width |-> nw, height |-> nh]

\* The limit is reached as well as exceeded.
reaches(width, height, max_dim) == width >= max_dim \/ height >= max_dim

\* `img.width() > max_dim || img.height() > max_dim`
exceeds(width, height, max_dim) == width > max_dim \/ height > max_dim

\* `ratio`, `new_w`, `new_h`: the bounds handed to img.resize
new_size(width, height, max_dim) ==
    LET ratio == div(max_dim, Max(width, height), f32_digits)
    IN  [width |-> as_u32(mul(width, ratio, f32_digits)),
         height |-> as_u32(mul(height, ratio, f32_digits))]

\* The size of the image that goes into the JPEG encoder, and whether
\* img.resize produced it.
resized_image(width, height, max_dim) ==
    IF exceeds(width, height, max_dim)
    THEN LET new == new_size(width, height, max_dim)
             fit == resize_dimensions(width, height, new.width, new.height)
         IN  [width |-> fit.width, height |-> fit.height, resized |-> TRUE]
    ELSE [width |-> width, height |-> height, resized |-> FALSE]

\* capture_screenshot from `// Resize if needed` on (Lanczos3 filter)
capture_screenshot_encode(width, height, max_dimension) ==
    resized_image(width, height, max_dimension)

\* ws_stream's compress_to_jpeg, sizes only (Triangle filter)
compress_to_jpeg_size(width, height, max_dim) ==
    resized_image(width, height, max_dim)

\* An image was captured on one of the two paths and is about to be encoded
\* under that path's max_dimension.
CodecInit ==
    /\ StreamIdle
    /\ DetectorIdle
    /\ shot = NoShot
    /\ poisoned = FALSE
    /\ panics = 0
    /\ redis = EmptyStore
    /\ handed = <<>>
    /\ api = NoApi
    /\ snap = NoSnap
    /\ codec \in [path : {"snapshot", "streaming"},
                  width : Sides,
                  height : Sides,
                  max_dimension : MaxDimensions,
                  encoded : {None}]

\* One call of the path's encoder on the captured image.
Encode ==
    /\ codec.encoded = None
    /\ codec' = [codec EXCEPT !.encoded =
                    Some(IF codec.path = "snapshot"
                         THEN capture_screenshot_encode(
                                  codec.width, codec.height,
                                  codec.max_dimension)
                         ELSE compress_to_jpeg_size(
                                  codec.width, codec.height,
                                  codec.max_dimension))]
    /\ UNCHANGED <<stream_vars, scan_vars, guard, shot>>
    /\ UNCHANGED <<poisoned, panics, redis, handed, api, snap>>

CodecNext == Encode

CodecSpec == CodecInit /\ [][CodecNext]_vars

----------------------------------------------------------------------------
(* Claims about the frame codec *)

Encoded == codec.encoded[1]

TooLarge ==
    codec.width > codec.max_dimension \/ codec.height > codec.max_dimension

Abs(n) == IF n < 0 THEN 0 - n ELSE n

\* One side of the encoded size is within one pixel of what the source's
\* aspect ratio gives for the other side.
AspectWithinOnePixel ==
    \/ Abs(Encoded.height * codec.width - Encoded.width * codec.height)
          <= codec.width
    \/ Abs(Encoded.width * codec.height - Encoded.height * codec.width)
          <= codec.height

\* C22: an image wider or higher than max_dimension is encoded at a size
\* whose larger side equals max_dimension and whose aspect ratio is the
\* source's within one pixel of rounding.
C22_ResizedToMaxDimension ==
    (codec.encoded # None /\ TooLarge) =>
        /\ Max(Encoded.width, Encoded.height) = codec.max_dimension
        /\ AspectWithinOnePixel

\* C23: an image whose width and height are both at most max_dimension is
\* not resized on either path: img.resize is not called and the encoder gets
\* the original width and height.
C23_WithinBoundsUnchanged ==
    (codec.encoded # None /\ ~TooLarge) =>
        Encoded = [width |-> codec.width, height |-> codec.height,
                   resized |-> FALSE]

\* An image whose larger side equals the limit was encoded by the streaming
\* path.
C23_Witness ==
    /\ codec.path = "streaming"
    /\ codec.encoded # None
    /\ Max(codec.width, codec.height) = codec.max_dimension
    /\ codec.width # codec.height

----------------------------------------------------------------------------
(* The scan loop when its blocking worker panics (main.rs, std::sync::Mutex) *)

MaxPanics == 2      \* `panics` saturates here

\* The worker panics inside Monitor::full_scan (a call made by a probe
\* panics) while it holds the MutexGuard.  Unwinding drops the guard, which
\* marks the mutex poisoned and unlocks it; the JoinHandle yields
\* Err(JoinError) and main takes its `Err(e)` arm: nothing is returned.
full_scan_panics ==
    /\ main_pc = "scan"
    /\ mutex_available
    /\ ~poisoned
    /\ poisoned' = TRUE
    /\ panics' = Min(panics + 1, MaxPanics)
    /\ main_pc' = "record"
    /\ cycle' = NoCycle
    /\ UNCHANGED <<platform, monitor, guard>>
    /\ UNCHANGED <<stream_vars, shot, redis, handed, codec, api, snap>>

\* `mon.lock()` on a poisoned mutex returns Err(PoisonError) and
\* `.expect("Monitor mutex poisoned")` panics: the worker ends before
\* full_scan is called, and main takes its `Err(e)` arm again.
lock_panics ==
    /\ main_pc = "scan"
    /\ mutex_available
    /\ poisoned
    /\ panics' = Min(panics + 1, MaxPanics)
    /\ main_pc' = "record"
    /\ cycle' = NoCycle
    /\ UNCHANGED <<platform, monitor, guard, poisoned>>
    /\ UNCHANGED <<stream_vars, shot, redis, handed, codec, api, snap>>

PanicNext ==
    \/ full_scan
    \/ full_scan_panics
    \/ lock_panics
    \/ record_and_sleep

PanicSpec == ScanInit /\ [][PanicNext]_vars

----------------------------------------------------------------------------
(* Claims about the scan loop's failures *)

\* C24: a panic of the scan worker stays local to its cycle: when the loop
\* comes to its next cycle after one whose worker panicked, the worker can
\* lock the monitor and run full_scan (and so report violations) again.
C24_ScanRecoversAfterPanic ==
    (panics > 0 /\ main_pc = "scan") => ENABLED full_scan

----------------------------------------------------------------------------
(* Violations on their way to the store (RecordSpec) *)

RecordMaxProcs == 1     \* processes per cycle followed in RecordSpec
MaxStored == 2          \* list entries and counter value followed

\* A store that always hands out a connection.
always_connected == TRUE

\* Store::conn: Some(connection) exactly while the server can be reached.
conn == redis.up

\* record_violation's `rule`, `severity` and the label that opens `detail`.
rule(kind) ==
    IF kind = "process" THEN "banned_process" ELSE "banned_domain"

severity(kind) ==
    IF kind = "process" THEN "high" ELSE "medium"

\* The two Russian labels ("banned process", "banned domain"), transliterated.
detail_label(kind) ==
    IF kind = "process" THEN "Zapreshchennyi protsess"
    ELSE "Zapreshchennyi domen"

\* Russian for "blocked" and "could not block", transliterated.
detail_outcome(action_taken) ==
    IF action_taken THEN "zablokirovano" ELSE "ne udalos zablokirovat"

\* format!("{}: {} ({})", label, target, outcome): the three parts in order.
detail(v) == <<detail_label(v.kind), v.target, detail_outcome(v.action_taken)>>

\* The JSON object record_violation builds; `timestamp` is not represented.
violation_payload(v) ==
    [hostname |-> v.hostname,
     rule |-> rule(v.kind),
     detail |-> detail(v),
     severity |-> severity(v.kind)]

\* One record_violation call: its argument and what became of it.
Handed(v, connected, lpush_ok, incr_ok) ==
    [violation |-> v, conn |-> connected, lpush |-> lpush_ok, incr |-> incr_ok]

\* The loop going through `viols` from its last element to its first.
for_next_reversed(viols, done) == viols[Len(viols) - Len(done)]

\* `for v in &viols`: the element after those the loop is done with.
for_next(viols, done) == viols[Len(done) + 1]

\* One turn of `for v in &viols { store.record_violation(v).await; }`:
\* without a connection the call returns at once; with one, LPUSH and INCR
\* are issued in turn, and the result of neither stops the other or the loop.
record_violation ==
    /\ main_pc = "record"
    /\ Len(handed) < Len(cycle.violations)
    /\ LET v == for_next(cycle.violations, handed)
       IN  IF ~conn
           THEN /\ redis' = redis
                /\ handed' = Append(handed, Handed(v, FALSE, FALSE, FALSE))
           ELSE \E lpush_ok \in BOOLEAN, incr_ok \in BOOLEAN :
                  /\ redis' =
                       [redis EXCEPT
                          !.violations =
                              IF lpush_ok THEN <<violation_payload(v)>> \o @
                              ELSE @,
                          !.violation_count =
                              IF incr_ok THEN @ + 1 ELSE @]
                  /\ handed' = Append(handed,
                                       Handed(v, TRUE, lpush_ok, incr_ok))
    /\ UNCHANGED <<platform, monitor, main_pc, cycle, guard>>
    /\ UNCHANGED <<stream_vars, shot, poisoned, panics, codec, api, snap>>

\* The loop is through the cycle's violations: sleep(scan_interval), next turn.
scan_sleep ==
    /\ main_pc = "record"
    /\ Len(handed) = Len(cycle.violations)
    /\ main_pc' = "scan"
    /\ cycle' = NoCycle
    /\ handed' = <<>>
    /\ UNCHANGED <<platform, monitor, guard>>
    /\ UNCHANGED <<stream_vars, shot, poisoned, panics, redis, codec, api, snap>>

\* The server, or the network path to it, goes away and comes back.
store_lost ==
    /\ redis.up
    /\ redis' = [redis EXCEPT !.up = FALSE]
    /\ UNCHANGED <<stream_vars, scan_vars, guard, shot>>
    /\ UNCHANGED <<poisoned, panics, handed, codec, api, snap>>

store_back ==
    /\ ~redis.up
    /\ redis' = [redis EXCEPT !.up = TRUE]
    /\ UNCHANGED <<stream_vars, scan_vars, guard, shot>>
    /\ UNCHANGED <<poisoned, panics, handed, codec, api, snap>>

\* One banned process and one banned domain; the server up or down at startup.
RecordInit ==
    /\ StreamIdle
    /\ platform = "windows"
    /\ monitor = Monitor_new({<<"A">>}, {<<"a", ".", "b">>}, hostname, username)
    /\ main_pc = "scan"
    /\ cycle = NoCycle
    /\ guard = FreeGuard
    /\ shot = NoShot
    /\ poisoned = FALSE
    /\ panics = 0
    /\ redis \in {[EmptyStore EXCEPT !.up = u] : u \in BOOLEAN}
    /\ handed = <<>>
    /\ codec = NoCodec
    /\ api = NoApi
    /\ snap = NoSnap

\* The cycles followed find at most RecordMaxProcs processes and no window
\* titles; the store is followed up to MaxStored entries and counts.
RecordQuota ==
    /\ Cardinality(DOMAIN cycle.procs) <= RecordMaxProcs
    /\ cycle.titles = None
    /\ Len(redis.violations) <= MaxStored
    /\ redis.violation_count <= MaxStored

RecordNext ==
    \/ full_scan /\ RecordQuota'
    \/ record_violation /\ RecordQuota'
    \/ scan_sleep
    \/ store_lost
    \/ store_back

RecordSpec == RecordInit /\ [][RecordNext]_vars

----------------------------------------------------------------------------
(* Claims about the store being out of reach *)

\* The violation the next record_violation call is about.
NextViolation == cycle.violations[Len(handed) + 1]

\* One call of record_violation made while the store cannot be reached.
C25_DroppedCall ==
    /\ main_pc = "record"
    /\ ~redis.up
    /\ Len(handed') = Len(handed) + 1

\* C25, first half: a record_violation call made while the store is
\* unreachable leaves every key as it was and buffers nothing: the loop keeps
\* its place in the same cycle with one more violation behind it, and a list
\* entry is only ever written by the call that is handed its violation, while
\* the store can be reached.
C25_Dropped ==
    /\ C25_DroppedCall =>
         /\ redis' = redis
         /\ main_pc' = "record"
         /\ cycle' = cycle
    /\ redis'.violations # redis.violations =>
         /\ redis.up
         /\ main_pc = "record"
         /\ Len(handed') = Len(handed) + 1
         /\ redis'.violations = <<violation_payload(NextViolation)>> \o redis.violations

\* C25, second half: whatever became of the calls before, the loop can go on
\* to the next violation, or after the last one to the sleep that ends the
\* cycle; and a violation handed over while the store is reachable can be
\* written at the head of the list.
C25_Proceeds ==
    /\ (main_pc' = "record" /\ Len(handed') < Len(cycle'.violations)) =>
          (ENABLED record_violation)'
    /\ (main_pc' = "record" /\ Len(handed') = Len(cycle'.violations)) =>
          (ENABLED scan_sleep)'
    /\ (main_pc = "record" /\ Len(handed) < Len(cycle.violations) /\ redis.up) =>
          ENABLED (/\ record_violation
                   /\ redis'.violations =
                        <<violation_payload(NextViolation)>> \o redis.violations)

\* C25: a violation met by an unreachable store is dropped without trace and
\* without stopping the scan loop, and recording works again once the store
\* is back.
C25_UnreachableStoreDrops == [][C25_Dropped /\ C25_Proceeds]_vars

\* A cycle in which one violation was dropped and a later one was written.
C25_Witness ==
    \E i \in DOMAIN handed, j \in DOMAIN handed :
        /\ i < j
        /\ ~handed[i].conn
        /\ handed[j].lpush
        /\ Len(redis.violations) = 1

----------------------------------------------------------------------------
(* The violation list of a host, written and read back (StoreSpec, ReadSpec) *)

StoreMaxStored == 11    \* list entries and counter value followed in StoreSpec
ReadMaxStored == 3      \* the same in ReadSpec, beside GET /violations

default_count == 50     \* api.rs, ViolationQuery's default for `count`

\* The `count` values a client asks for.
Counts == {0, 1, 2, default_count}

\* The fields serde requires in a JSON object to build a models::Violation
\* from it (`timestamp`, present on both sides, is not represented).
ViolationFields == {"hostname", "target", "kind", "action_taken", "username"}

\* serde_json::from_str::<Violation>(s).ok(): a missing field is an error,
\* fields the struct does not have are skipped.
from_str(payload) ==
    IF ViolationFields \subseteq DOMAIN payload
    THEN Some([f \in ViolationFields |-> payload[f]])
    ELSE None

\* Redis LRANGE key start stop: both ends inclusive and counted from 0, a
\* negative end counted from the tail, ends outside the list clipped.
lrange(list, start, stop) ==
    LET from == IF start < 0 THEN Max(Len(list) + start, 0) ELSE start
        to == IF stop < 0 THEN Len(list) + stop ELSE stop
    IN  SubSeq(list, from + 1, IF to + 1 < Len(list) THEN to + 1 ELSE Len(list))

\* raw.iter().filter_map(|s| serde_json::from_str(s).ok()).collect()
RECURSIVE filter_map_from_str(_)
filter_map_from_str(raw) ==
    IF raw = <<>> THEN <<>>
    ELSE LET parsed == from_str(Head(raw))
             rest == filter_map_from_str(Tail(raw))
         IN  IF parsed = None THEN rest ELSE <<parsed[1]>> \o rest

\* recent_violations' `raw`: nothing without a connection (the early return)
\* or when LRANGE fails (unwrap_or_default), else what
\* `lrange(&key, 0, count - 1)` returns.
raw_entries(count, lrange_ok) ==
    IF ~conn \/ ~lrange_ok THEN <<>>
    ELSE lrange(redis.violations, 0, count - 1)

\* Store::recent_violations(hostname, count): what parses of `raw`.
recent_violations(count, lrange_ok) ==
    filter_map_from_str(raw_entries(count, lrange_ok))

\* GET /violations?count=..: the list and its length as `total`.
violations ==
    /\ \E count \in Counts, lrange_ok \in BOOLEAN :
         LET list == recent_violations(count, lrange_ok)
         IN  api' = [api EXCEPT
                       !.count = count,
                       !.read = conn /\ lrange_ok,
                       !.raw = Len(raw_entries(count, lrange_ok)),
                       !.violations = Some([total |-> Len(list),
                                            violations |-> list])]
    /\ UNCHANGED <<stream_vars, scan_vars, guard, shot>>
    /\ UNCHANGED <<poisoned, panics, redis, handed, codec, snap>>

\* One banned domain and no banned process; the server up or down at startup.
StoreInit ==
    /\ StreamIdle
    /\ platform = "windows"
    /\ monitor = Monitor_new({}, {<<"a", ".", "b">>}, hostname, username)
    /\ main_pc = "scan"
    /\ cycle = NoCycle
    /\ guard = FreeGuard
    /\ shot = NoShot
    /\ poisoned = FALSE
    /\ panics = 0
    /\ redis \in {[EmptyStore EXCEPT !.up = u] : u \in BOOLEAN}
    /\ handed = <<>>
    /\ codec = NoCodec
    /\ api = NoApi
    /\ snap = NoSnap

\* The cycles followed find no process and no window title; the store is
\* followed up to StoreMaxStored entries and counts, beside a reader up to
\* ReadMaxStored.
StoreQuota ==
    /\ cycle.procs = <<>>
    /\ cycle.titles = None
    /\ Len(redis.violations) <= StoreMaxStored
    /\ redis.violation_count <= StoreMaxStored

ReadQuota ==
    /\ cycle.procs = <<>>
    /\ cycle.titles = None
    /\ Len(redis.violations) <= ReadMaxStored
    /\ redis.violation_count <= ReadMaxStored

StoreNext ==
    \/ full_scan /\ StoreQuota'
    \/ record_violation /\ StoreQuota'
    \/ scan_sleep
    \/ store_lost
    \/ store_back

StoreSpec == StoreInit /\ [][StoreNext]_vars

ReadNext ==
    \/ full_scan /\ ReadQuota'
    \/ record_violation /\ ReadQuota'
    \/ scan_sleep
    \/ store_lost
    \/ store_back
    \/ violations

ReadSpec == StoreInit /\ [][ReadNext]_vars

----------------------------------------------------------------------------
(* Claims about the violation list *)

screenshot_history_len == 10    \* store.rs, `ltrim(&history_key, 0, 9)`

\* C26: the violation list of the host never holds more entries than the
\* window the store keeps for a history list.
C26_ViolationsBounded == Len(redis.violations) <= screenshot_history_len

\* A GET /violations with count >= 1 that got its answer from LRANGE.
C28_Answered ==
    /\ api' # api
    /\ api'.violations # None
    /\ api'.read
    /\ api'.count >= 1

\* C28: the answer to GET /violations?count=c lists, newest first, the
\* violations behind the first c entries of the list record_violation wrote.
C28_WrittenIsReturned ==
    [][C28_Answered =>
         LET n == Min(api'.count, Len(redis.violations))
             list == api'.violations[1].violations
         IN  /\ Len(list) = n
             /\ \A i \in 1..n : violation_payload(list[i]) = redis.violations[i]]_vars

----------------------------------------------------------------------------
(* Periodic snapshots on their way to the store (SnapshotSpec) *)

MaxPushes == 12         \* push_screenshot calls followed

\* Base64 text try_capture_screenshot returns, as a character sequence.
Screenshots == { <<"/", "9", "j", "/">> }

\* The JSON object push_screenshot builds: `timestamp` is Utc::now().
screenshot_metadata(host, timestamp, screenshot_base64) ==
    [hostname |-> host,
     timestamp |-> timestamp,
     data |-> screenshot_base64,
     size |-> Len(screenshot_base64)]

\* LTRIM that leaves the list as it is.
ltrim_keeps_all(list, start, stop) == list

\* Redis LTRIM key start stop: the list becomes what LRANGE would return.
ltrim(list, start, stop) == lrange(list, start, stop)

\* One turn of the snapshot loop that got Ok(Some(data)) from the capture:
\* Store::push_screenshot. Without a connection nothing is issued; with one,
\* SET EX on the latest key, LPUSH and LTRIM 0 9 on the history are issued in
\* turn, and no result stops the next command. Serializing the metadata, an
\* object of strings and numbers, does not fail.
push_screenshot ==
    /\ \E data \in Screenshots :
         LET payload == screenshot_metadata(hostname, snap.now + 1, data)
         IN  IF ~conn
             THEN /\ redis' = redis
                  /\ snap' = [NoSnap EXCEPT !.now = snap.now + 1]
             ELSE \E set_ok \in BOOLEAN, lpush_ok \in BOOLEAN,
                     ltrim_ok \in BOOLEAN :
                    LET pushed == IF lpush_ok
                                  THEN <<payload>> \o redis.screenshot_history
                                  ELSE redis.screenshot_history
                        trimmed == IF ltrim_ok
                                   THEN ltrim(pushed, 0, screenshot_history_len - 1)
                                   ELSE pushed
                    IN  /\ redis' =
                             [redis EXCEPT
                                !.screenshot =
                                    IF set_ok THEN Some(payload) ELSE @,
                                !.screenshot_history = trimmed]
                        /\ snap' = [now |-> snap.now + 1,
                                    all_ok |-> set_ok /\ lpush_ok /\ ltrim_ok]
    /\ UNCHANGED <<stream_vars, scan_vars, guard, shot>>
    /\ UNCHANGED <<poisoned, panics, handed, codec, api>>

\* The latest key outlives its last SET EX by its TTL (120 seconds) only.
latest_expires ==
    /\ redis.screenshot # None
    /\ redis' = [redis EXCEPT !.screenshot = None]
    /\ UNCHANGED <<stream_vars, scan_vars, guard, shot>>
    /\ UNCHANGED <<poisoned, panics, handed, codec, api, snap>>

SnapshotInit ==
    /\ StreamIdle
    /\ DetectorIdle
    /\ shot = NoShot
    /\ poisoned = FALSE
    /\ panics = 0
    /\ redis \in {[EmptyStore EXCEPT !.up = u] : u \in BOOLEAN}
    /\ handed = <<>>
    /\ codec = NoCodec
    /\ api = NoApi
    /\ snap = NoSnap

\* The first MaxPushes calls are followed.
SnapshotQuota == snap.now <= MaxPushes

SnapshotNext ==
    \/ push_screenshot /\ SnapshotQuota'
    \/ latest_expires
    \/ store_lost
    \/ store_back

SnapshotSpec == SnapshotInit /\ [][SnapshotNext]_vars

----------------------------------------------------------------------------
(* Claims about the screenshot keys *)

\* A push_screenshot call whose SET EX, LPUSH and LTRIM all succeeded.
C27_Pushed ==
    /\ snap'.now = snap.now + 1
    /\ snap'.all_ok

\* Entries of a history list ordered from the newest to the oldest.
NewestFirst(list) ==
    \A i \in DOMAIN list, j \in DOMAIN list :
        i < j => list[i].timestamp > list[j].timestamp

\* C27: right after a push_screenshot whose store commands all succeeded the
\* history list of the host holds at most ten entries, newest first with the
\* screenshot just pushed at its head, and the latest key holds that
\* screenshot.
C27_HistoryBoundedLatestSet ==
    [][C27_Pushed =>
         /\ Len(redis'.screenshot_history) <= screenshot_history_len
         /\ NewestFirst(redis'.screenshot_history)
         /\ redis'.screenshot_history[1].timestamp = snap'.now
         /\ redis'.screenshot_history[1].data \in Screenshots
         /\ redis'.screenshot = Some(redis'.screenshot_history[1])]_vars

\* A twelfth push went through and left ten entries behind.
C27_Witness ==
    /\ snap.all_ok
    /\ snap.now = MaxPushes
    /\ Len(redis.screenshot_history) = screenshot_history_len
    /\ redis.screenshot = Some(redis.screenshot_history[1])
    /\ redis.screenshot_history[screenshot_history_len].timestamp > 1

----------------------------------------------------------------------------
(* The open-URL endpoint (ApiSpec) *)

MaxCommands == 2        \* platform commands followed

\* URLs a client may post, as character sequences: the two accepted schemes,
\* the bare scheme, another scheme, upper case, a missing slash, a leading
\* space, a scheme that only occurs inside, and the empty string.
Urls ==
    { <<"h", "t", "t", "p", ":", "/", "/", "a">>,
      <<"h", "t", "t", "p", "s", ":", "/", "/", "a">>,
      <<"h", "t", "t", "p", ":", "/", "/">>,
      <<"f", "t", "p", ":", "/", "/", "a">>,
      <<"H", "T", "T", "P", ":", "/", "/", "a">>,
      <<"h", "t", "t", "p", ":", "/", "a">>,
      <<" ", "h", "t", "t", "p", ":", "/", "/", "a">>,
      <<"a", "?", "h", "t", "t", "p", "s", ":", "/", "/", "a">>,
      <<>> }

HttpPrefix == <<"h", "t", "t", "p", ":", "/", "/">>

HttpsPrefix == <<"h", "t", "t", "p", "s", ":", "/", "/">>

\* A pattern found at any place of the text.
found_anywhere(text, pat) == contains(text, pat)

\* str::starts_with
starts_with(text, pat) ==
    /\ Len(text) >= Len(pat)
    /\ SubSeq(text, 1, Len(pat)) = pat

\* The JSON bodies open_url_handler answers with.
OpenUrlOk == [status |-> "ok", error |-> None]

OpenUrlError(text) == [status |-> "error", error |-> Some(text)]

\* open_url_in_browser's command line on each platform.
open_url_command(url) ==
    IF platform = "windows" THEN <<"cmd", "/C", "start", "", url>>
    ELSE IF platform = "macos" THEN <<"open", url>>
    ELSE <<"xdg-open", url>>

\* What Command::status() may come to: the command ran and exited with
\* success, ran and exited with failure, or could not be started.
CommandResults == {"success", "failure", "not started"}

\* POST /open-url: a URL with neither prefix is answered at once; any other
\* is passed to the platform's opener on a blocking thread, and the answer
\* tells whether the opener exited with success.
open_url_handler ==
    /\ \E url \in Urls :
         IF ~starts_with(url, HttpPrefix) /\ ~starts_with(url, HttpsPrefix)
         THEN api' = [api EXCEPT
                        !.url = Some(url),
                        !.response =
                            Some(OpenUrlError("URL must start with http(s)://"))]
         ELSE \E res \in CommandResults :
                api' = [api EXCEPT
                          !.url = Some(url),
                          !.response =
                              Some(IF res = "success" THEN OpenUrlOk
                                   ELSE OpenUrlError("failed to open URL")),
                          !.commands =
                              IF res = "not started" THEN @
                              ELSE Append(@, open_url_command(url))]
    /\ UNCHANGED <<stream_vars, scan_vars, guard, shot>>
    /\ UNCHANGED <<poisoned, panics, redis, handed, codec, snap>>

ApiInit ==
    /\ StreamIdle
    /\ platform \in {"windows", "macos", "linux"}
    /\ monitor = Monitor_new({}, {}, hostname, username)
    /\ main_pc = "scan"
    /\ cycle = NoCycle
    /\ guard = FreeGuard
    /\ shot = NoShot
    /\ ServicesIdle

\* The first MaxCommands platform commands are followed.
ApiQuota == Len(api.commands) <= MaxCommands

ApiNext == open_url_handler /\ ApiQuota'

ApiSpec == ApiInit /\ [][ApiNext]_vars

----------------------------------------------------------------------------
(* Claims about the open-URL endpoint *)

\* The URL is one the endpoint is meant to open.
HttpUrl(url) ==
    \E prefix \in {HttpPrefix, HttpsPrefix} :
        /\ Len(url) >= Len(prefix)
        /\ \A i \in DOMAIN prefix : url[i] = prefix[i]

\* The last element of a command line: the URL handed to the opener.
Opened(command) == command[Len(command)]

\* C29, first half: every platform command the endpoint ran was the
\* platform's opener, given a URL that begins with http:// or https://.
C29_OnlyHttpOpened ==
    \A i \in DOMAIN api.commands : HttpUrl(Opened(api.commands[i]))

\* C29, second half: a request whose URL begins with neither prefix is
\* answered with status "error" and runs no platform command.
C29_OthersRefused ==
    (api'.url # None /\ ~HttpUrl(api'.url[1])) =>
        /\ api'.response # None
        /\ api'.response[1].status = "error"
        /\ api'.commands = api.commands

\* C29: the open-URL endpoint starts the browser only for URLs beginning with
\* "http://" or "https://"; any other URL gets an error status and no
\* platform command.
C29_OpenUrlOnlyHttp == [][C29_OnlyHttpOpened' /\ C29_OthersRefused]_vars

\* A refused request after one that opened the browser.
C29_Witness ==
    /\ api.url # None
    /\ ~HttpUrl(api.url[1])
    /\ api.response = Some(OpenUrlError("URL must start with http(s)://"))
    /\ Len(api.commands) = 1

----------------------------------------------------------------------------
(* Claims about full_scan as a whole *)

\* The violations of the cycle that came from the process probe.
ProcPart == 1..cycle.by_procs

\* The targets reported at the positions `part`.
TargetsOf(part) == {cycle.violations[i].target : i \in part}

\* C31: a cycle's violations are those of the process probe, then those of
\* the resolver-cache probe, then those of the window-title probe, each probe
\* having run once: one kill attempt and one violation of kind process per
\* flagged process come first, then one violation of kind domain per banned
\* domain the resolver cache shows, with at most one flush, then one per
\* banned domain the window titles show, and nothing else.
C31_ProbesInOrder ==
    main_pc = "record" =>
        /\ cycle.by_procs = Cardinality(flagged(cycle.procs))
        /\ Len(cycle.kills) = cycle.by_procs
        /\ \A i \in ProcPart :
              /\ cycle.violations[i].kind = "process"
              /\ cycle.kills[i].pid \in flagged(cycle.procs)
              /\ cycle.violations[i].target = to_lowercase(cycle.procs[cycle.kills[i].pid])
        /\ \A pid \in flagged(cycle.procs) : Cardinality(KillsOf(pid)) = 1
        /\ cycle.by_dns = Cardinality(DnsHits)
        /\ TargetsOf(DnsPart) = DnsHits
        /\ \A i \in DnsPart : cycle.violations[i].kind = "domain"
        /\ Len(cycle.flushes) = IF DnsHits = {} THEN 0 ELSE 1
        /\ by_titles = Cardinality(TitleHits)
        /\ TargetsOf(TitlePart) = TitleHits
        /\ \A i \in TitlePart : cycle.violations[i].kind = "domain"

\* A cycle in which each of the three probes reported something.
C31_Witness ==
    /\ main_pc = "record"
    /\ cycle.by_procs >= 1
    /\ cycle.by_dns >= 1
    /\ by_titles >= 1
    /\ TargetsOf(ProcPart) \cap TargetsOf(TitlePart) = {}

----------------------------------------------------------------------------
(* Claims about the detector's own state *)

\* A step that changed the detector.
C32_Changed == monitor' # monitor

\* The lists of the detector are exactly those of one configuration,
\* lowercased: nothing of an earlier configuration is left in them.
C32_FromOneConfiguration ==
    /\ \E bp \in BanProcLists : monitor.banned_procs = lowercased(bp)
    /\ \E bd \in BanDomainLists : monitor.banned_domains = lowercased(bd)

\* Every violation of the cycle matches an entry of the lists as they are.
C32_MatchesCurrentLists ==
    \A i \in DOMAIN cycle.violations :
        LET v == cycle.violations[i]
        IN  IF v.kind = "process"
            THEN \/ v.target \in monitor.banned_procs
                 \/ unwrap_or(strip_suffix(v.target, ExeSuffix), v.target)
                        \in monitor.banned_procs
            ELSE v.target \in monitor.banned_domains

\* C32: the detector changes only in a reload between two cycles, which
\* leaves hostname and username alone and leaves both lists as those of the
\* new configuration alone; a scan cycle leaves the detector as it was and
\* reports only what the lists hold at that time.
C32_OnlyReloadChangesDetector ==
    [][/\ C32_Changed =>
            /\ main_pc = "scan"
            /\ main_pc' = "scan"
            /\ cycle' = cycle
            /\ monitor'.hostname = monitor.hostname
            /\ monitor'.username = monitor.username
            /\ C32_FromOneConfiguration'
       /\ main_pc' = "record" =>
            /\ monitor' = monitor
            /\ C32_MatchesCurrentLists']_vars

\* A cycle that ran with no process banned and a process named "a" in the
\* table: the domain it reports is in the lists, the process is not reported.
C32_Witness ==
    /\ main_pc = "record"
    /\ monitor.banned_procs = {}
    /\ \E pid \in DOMAIN cycle.procs : cycle.procs[pid] = <<"a">>
    /\ cycle.by_procs = 0
    /\ cycle.by_dns >= 1

----------------------------------------------------------------------------
(* Claims about the scan loop's hand-over *)

\* The calls made so far in this cycle were given the cycle's violations in
\* the order full_scan returned them, one call each.
C33_InOrderOnce ==
    /\ Len(handed) <= Len(cycle.violations)
    /\ \A i \in DOMAIN handed : handed[i].violation = cycle.violations[i]

\* The loop leaves a cycle only after the last violation was handed over,
\* through the sleep; a scan starts only with nothing of an earlier cycle
\* left to hand over, and nothing is handed over while a scan is due.
C33_CycleByCycle ==
    /\ (main_pc = "record" /\ main_pc' = "scan") =>
           /\ Len(handed) = Len(cycle.violations)
           /\ handed' = <<>>
    /\ (main_pc = "scan" /\ main_pc' = "record") =>
           /\ handed = <<>>
           /\ handed' = <<>>
    /\ main_pc' = "scan" => handed' = <<>>

----------------------------------------------------------------------------
(* Claims about the size of the answer to GET /violations *)

\* C34: recent_violations with count >= 0 reads at most count entries of the
\* host's list, none when count is 0, and the answer holds at most count
\* violations.
C34_ReadsAtMostCount ==
    api.violations # None =>
        /\ api.raw <= api.count
        /\ Len(api.violations[1].violations) <= api.count
        /\ api.violations[1].total <= api.count

----------------------------------------------------------------------------
(* Claims about how a streaming session ends *)

\* What connect_and_stream can return with: the four `?` / `return Err`.
SessionErrors == {"connect_error", "handshake_error", "send_error", "join_error"}

\* connect_and_stream returns in this step.
C35_Returns == pc # "closed" /\ pc' = "closed"

\* C35: connect_and_stream returns only with an error, and only from a failed
\* connect, a failed handshake write, a failed frame write or a capture worker
\* that panicked; run_streaming_loop never sees Ok(()).
C35_EndsOnlyWithError ==
    [][/\ result' \in SessionErrors \cup {"running"}
       /\ pc' = "closed" => result' \in SessionErrors
       /\ C35_Returns =>
            \/ pc = "connect" /\ result' = "connect_error"
            \/ pc = "handshake" /\ result' = "handshake_error"
                                /\ ~Last(wire').ok
            \/ pc = "send" /\ result' = "send_error" /\ ~Last(wire').ok
            \/ pc = "capture" /\ result' = "join_error"
                              /\ iter'.path = "join_error"]_vars

\* A session that streamed a frame and then ended on a failed frame write.
C35_Witness ==
    /\ pc = "closed"
    /\ result = "send_error"
    /\ Len(wire) >= 3

----------------------------------------------------------------------------
(* Claims about the violation counter *)

\* C36: the host's violation counter equals the number of entries
\* record_violation added to the host's violation list (nothing else writes
\* the list and nothing removes from it, so that number is its length).
C36_CounterMatchesList == redis.violation_count = Len(redis.violations)

====
